---- MODULE Spec2Model ----
(***************************************************************************)
(* A model of the landfill storage library: the directory arena            *)
(* (src/src/disk/mod.rs), the segmented byte arena (src/src/storage/       *)
(* bytes.rs, src/src/bytes.rs), the checksummed journal (src/src/storage/  *)
(* journal.rs), the append-only log (src/src/storage/appendonly.rs) and    *)
(* the random-access array (src/src/storage/randomaccess.rs).              *)
(*                                                                         *)
(* Each component has its own specification over the shared variables;    *)
(* the variables a component does not use keep their initial values.       *)
(***************************************************************************)
EXTENDS Integers, Sequences, FiniteSets, TLC

VARIABLES
    \* ---- filesystem and Landfill arena (disk/mod.rs)
    dir_exists,     \* [Paths -> BOOLEAN]: the arena directory exists
    lock_exists,    \* [Paths -> BOOLEAN]: the file `_lock` exists in it
    arenas,         \* [1..MaxArenas -> LandfillInner and its handles]
    lf_last,        \* the last Landfill operation and its result
    \* ---- journal (storage/journal.rs)
    j_mode,         \* "disk" (JournalInner::Disk) or "mem" (JournalInner::Mem)
    j_file,         \* the ring in the mapped file: [0..NEntries-1 -> entry]
    j_latest,       \* latest_entry_index (in memory)
    j_mem,          \* the value of JournalInner::Mem
    j_open,         \* a Journal object exists in the process
    j_upd,          \* the update in flight: position and locals
    j_hist,         \* history: values handed to closures, results, crashes
    \* ---- segmented byte arena (storage/bytes.rs, bytes.rs)
    init_size,      \* the const generic INIT_SIZE
    lanes,          \* lane numbers whose OnceLock holds a mapping
    lane_files,     \* lane numbers whose file exists on disk
    mem,            \* [0..MaxOffset-1 -> byte]: contents by logical offset
    \* ---- append-only log (storage/appendonly.rs)
    ent_file,       \* the persisted entropy seed, or NoSeed
    ao_tag,         \* the tag of the open AppendOnly
    ao_open,        \* an AppendOnly object exists in the process
    ao_thr,         \* per writer thread: position and locals of write()
    ao_hist,        \* history: records returned by write, reopen count
    \* ---- random-access array (storage/randomaccess.rs)
    t_size,         \* size_of::<T>()
    ra_last,        \* the last array operation and its result
    ra_open,        \* the arena is open and a RandomAccess exists
    ra_sd,          \* self_destruct_sequence_initiated of the open arena
    ra_hist,        \* history: records stored, times opened, destruction
    \* ---- concurrent use of one array (tests/random.rs, request_write)
    st_variant,     \* "spin" (storage/bytes.rs) or "mutex" (bytes.rs)
    st_thr,         \* per writer thread: position and locals of with_mut
    st_locks,       \* the stripe write locks that are held, with holder
    st_claimed,     \* already_mapped: the lane names handed out
    st_io,          \* the holder of io_mutex, or 0
    st_rd,          \* the reader thread: position, cursor, wanted record
    st_hist,        \* history: lane creations, stores and refusals by slot
    \* ---- SmashMap (structures/smash.rs)
    sm_hash,        \* Entropy::checksum of each key
    sm_rehash,      \* Entropy::checksum of each entropy_state
    sm_slots,       \* the slots of the array that hold a value
    sm_thr,         \* per thread: the insert or get that is running
    sm_hist,        \* history: the keys inserted and their values
    \* ---- lane arithmetic on its own (storage/bytes.rs)
    lm_in,          \* the arguments: INIT_SIZE, offset, len, alignment asked
    lm_out,         \* the function applied and what it returned
    \* ---- file mappings of one arena (disk/mod.rs, landfill.rs)
    mf_variant,     \* "disk" (disk/mod.rs) or "landfill" (landfill.rs)
    mf_names,       \* reserved_names / already_mapped
    mf_files,       \* the full names whose file exists in the directory
    mf_maps,        \* per full name: the mappings handed out
    mf_last,        \* the last call and its result
    \* ---- static blobs of one arena (disk/mod.rs, storage/entropy.rs)
    sf_mode,        \* "disk" (Landfill::open) or "ephemeral"
    sf_open,        \* the arena is open
    sf_files,       \* per file name: the bytes of the file, or NoFile
    sf_last,        \* the last call, whether init ran, and its result
    sf_hist,        \* history: the first blob returned per name, reopening
    \* ---- OnceMap (structures/oncemap.rs)
    om_hash,        \* Entropy::checksum of each key
    om_rehash,      \* Entropy::checksum of each entropy_state
    om_data,        \* the AppendOnly `data`: the cells written, by offset
    om_index,       \* the slots of `index` that hold an Entry
    om_thr,         \* per thread: the insert or get that is running
    om_hist,        \* history: what was stored per key, completed inserts
    \* ---- lane files of a byte arena (diskbytes/raw.rs, storage/bytes.rs)
    rw_variant,     \* "raw" (diskbytes/raw.rs) or "storage" (storage/bytes.rs)
    rw_open,        \* a DiskBytesRaw / DiskBytes exists in the process
    rw_len,         \* per lane number: the length of the lane file
    rw_last         \* the last call and its result

lfVars == <<dir_exists, lock_exists, arenas, lf_last>>
jVars  == <<j_mode, j_file, j_latest, j_mem, j_open, j_upd, j_hist>>
dbVars == <<init_size, lanes, lane_files, mem>>
aoVars == <<ent_file, ao_tag, ao_open, ao_thr, ao_hist>>
raVars == <<t_size, ra_last, ra_open, ra_sd, ra_hist>>
stVars == <<st_variant, st_thr, st_locks, st_claimed, st_io, st_rd, st_hist>>
smVars == <<sm_hash, sm_rehash, sm_slots, sm_thr, sm_hist>>
lmVars == <<lm_in, lm_out>>
mfVars == <<mf_variant, mf_names, mf_files, mf_maps, mf_last>>
sfVars == <<sf_mode, sf_open, sf_files, sf_last, sf_hist>>
omVars == <<om_hash, om_rehash, om_data, om_index, om_thr, om_hist>>
rwVars == <<rw_variant, rw_open, rw_len, rw_last>>
vars   == <<lfVars, jVars, dbVars, aoVars, raVars, stVars, smVars, lmVars,
           mfVars, sfVars, omVars, rwVars>>

(***************************************************************************)
(* Bounds of the model                                                     *)
(***************************************************************************)
MaxArenas  == 2     \* LandfillInner objects existing at once
MaxHandles == 2     \* Landfill handles alive at once
MaxUpdates == 3     \* journal updates per run
MaxValue   == 3     \* largest journal value a closure produces
MaxWrites  == 3     \* append-only writes per run
MaxSessions == 2    \* times the append-only log is opened
MaxLen     == 2     \* longest byte string written
MaxOffset  == 15    \* logical offsets 0..MaxOffset-1 are modelled
MaxIndex   == 3     \* array indices 0..MaxIndex are used

(***************************************************************************)
(* Landfill: src/src/disk/mod.rs                                           *)
(***************************************************************************)
NoPath == "None"
Paths  == {"p1"}

\* A name is the sequence of its `_`-separated pieces, so that "a_array" and
\* the join of "a" and "array" are the same string, as they are in the code.
SepName(a, b) == a \o <<"_">> \o b
UserNames == {<<"a">>, SepName(<<"a">>, <<"array">>)}
SubKinds  == {"Leaf", "RandomAccess"}

\* Landfill::branch: the new name_prefix
BranchName(name_prefix, name) ==
    IF name_prefix # <<>> THEN SepName(name_prefix, name) ELSE name

\* A LandfillInner and the handles that share it: `users` counts the Landfill
\* values held by the caller (name_prefix ""), `subs` holds the name_prefix
\* of every branch held by a live substructure.  The slot of a LandfillInner
\* whose Drop has finished is free for the next one.
UnusedArena == [status |-> "unused", dir_path |-> NoPath,
                reserved_names |-> {}, self_destruct |-> FALSE,
                users |-> 0, subs |-> {}]
NewLandfill(dir_path) == [status |-> "live", dir_path |-> dir_path,
                          reserved_names |-> {}, self_destruct |-> FALSE,
                          users |-> 1, subs |-> {}]

ArenaIds == 1..MaxArenas

\* a count that misses the clones held by branches and mapped files
RefCountUsers(a) == arenas[a].users
\* Arc::strong_count of a LandfillInner
RefCount(a) == arenas[a].users + Cardinality(arenas[a].subs)
Live(a)     == arenas[a].status = "live"
RECURSIVE SumRefs(_)
SumRefs(ids) == IF ids = {} THEN 0
                ELSE LET a == CHOOSE x \in ids : TRUE
                     IN RefCount(a) + SumRefs(ids \ {a})
HandleFree  == SumRefs(ArenaIds) < MaxHandles
FreshArenas == {a \in ArenaIds : arenas[a].status = "unused"}
NewArena    == CHOOSE a \in FreshArenas : \A b \in FreshArenas : a <= b

\* The last call and its result; the arena and the name are recorded for the
\* calls whose outcome depends on them (open, substructure).
LastOp(op, result, a, name) ==
    [op |-> op, result |-> result, arena |-> a, name |-> name]

InitLandfill ==
    /\ dir_exists = [p \in Paths |-> FALSE]
    /\ lock_exists = [p \in Paths |-> FALSE]
    /\ arenas = [a \in ArenaIds |-> UnusedArena]
    /\ lf_last = LastOp("none", "none", 0, <<>>)

\* Landfill::open: create the directory if absent, then create `_lock` with
\* create_new; an existing lock file makes the open fail (the directory it
\* may have created stays).
LandfillOpen(p) ==
    /\ FreshArenas # {} /\ HandleFree
    /\ dir_exists' = [dir_exists EXCEPT ![p] = TRUE]
    /\ IF lock_exists[p]
       THEN /\ lf_last' = LastOp("open", "err", 0, <<>>)
            /\ UNCHANGED <<lock_exists, arenas>>
       ELSE /\ lock_exists' = [lock_exists EXCEPT ![p] = TRUE]
            /\ arenas' = [arenas EXCEPT ![NewArena] = NewLandfill(p)]
            /\ lf_last' = LastOp("open", "ok", NewArena, <<>>)
    /\ UNCHANGED <<jVars, dbVars, aoVars, raVars, stVars, smVars, lmVars, mfVars, rwVars, omVars, sfVars>>

\* Landfill::ephemeral: no directory and no lock file
LandfillEphemeral ==
    /\ FreshArenas # {} /\ HandleFree
    /\ arenas' = [arenas EXCEPT ![NewArena] = NewLandfill(NoPath)]
    /\ lf_last' = LastOp("ephemeral", "ok", 0, <<>>)
    /\ UNCHANGED <<dir_exists, lock_exists, jVars, dbVars, aoVars, raVars, stVars, smVars, lmVars, mfVars, rwVars, omVars, sfVars>>

\* Clone of a Landfill handle (#[derive(Clone)]): one more Arc reference
LandfillClone(a) ==
    /\ Live(a) /\ arenas[a].users > 0 /\ HandleFree
    /\ arenas' = [arenas EXCEPT ![a].users = @ + 1]
    /\ lf_last' = LastOp("clone", "ok", 0, <<>>)
    /\ UNCHANGED <<dir_exists, lock_exists, jVars, dbVars, aoVars, raVars, stVars, smVars, lmVars, mfVars, rwVars, omVars, sfVars>>

\* a register_name that never reports a name as taken
RegisterNameAlways(names, name) == TRUE
\* Landfill::register_name: HashSet::insert, true when the name was new
RegisterName(names, name) == name \notin names

\* Landfill::substructure, called on a Landfill of the caller, for the
\* substructure kind `kind`.
\*   Leaf:         S::init keeps the guarded branch and asks for nothing else.
\*   RandomAccess: S::init asks for the substructure "array" of its branch
\*                 (storage/randomaccess.rs) and keeps that one.
\* The branch is registered before S::init runs, and stays registered when
\* S::init fails.
LandfillSubstructure(a, name, kind) ==
    LET full   == BranchName(<<>>, name)
        names  == arenas[a].reserved_names
        inner_ == BranchName(full, <<"array">>)
    IN
    /\ Live(a) /\ arenas[a].users > 0
    /\ IF ~RegisterName(names, full)
       THEN /\ lf_last' = LastOp("substructure", "err", a, full)
            /\ UNCHANGED arenas
       ELSE IF kind = "Leaf"
       THEN /\ HandleFree
            /\ arenas' = [arenas EXCEPT
                   ![a].reserved_names = names \cup {full},
                   ![a].subs = @ \cup {full}]
            /\ lf_last' = LastOp("substructure", "ok", a, full)
       ELSE IF ~RegisterName(names \cup {full}, inner_)
       THEN /\ arenas' = [arenas EXCEPT
                   ![a].reserved_names = names \cup {full}]
            /\ lf_last' = LastOp("substructure", "init_err", a, full)
       ELSE /\ HandleFree
            /\ arenas' = [arenas EXCEPT
                   ![a].reserved_names = names \cup {full, inner_},
                   ![a].subs = @ \cup {inner_}]
            /\ lf_last' = LastOp("substructure", "ok", a, full)
    /\ UNCHANGED <<dir_exists, lock_exists, jVars, dbVars, aoVars, raVars, stVars, smVars, lmVars, mfVars, rwVars, omVars, sfVars>>

\* Landfill::initiate_self_destruct_sequence
LandfillSelfDestruct(a) ==
    /\ Live(a) /\ arenas[a].users > 0
    /\ ~arenas[a].self_destruct
    /\ arenas' = [arenas EXCEPT ![a].self_destruct = TRUE]
    /\ lf_last' = LastOp("self_destruct", "ok", 0, <<>>)
    /\ UNCHANGED <<dir_exists, lock_exists, jVars, dbVars, aoVars, raVars, stVars, smVars, lmVars, mfVars, rwVars, omVars, sfVars>>

\* One handle of arena `a` is dropped: a Landfill of the caller when
\* sub = <<>>, else the substructure holding the branch `sub`.  The drop of
\* the last reference runs Drop for LandfillInner, whose first filesystem
\* call removes `_lock`; the arena is then "unlocking" until
\* LandfillDropFinish.
LandfillDropHandle(a, sub) ==
    LET after == IF sub = <<>>
                 THEN [arenas[a] EXCEPT !.users = @ - 1]
                 ELSE [arenas[a] EXCEPT !.subs = @ \ {sub}]
    IN
    /\ Live(a)
    /\ IF sub = <<>> THEN arenas[a].users > 0 ELSE sub \in arenas[a].subs
    /\ lf_last' = LastOp("drop", "ok", 0, <<>>)
    /\ IF RefCount(a) > 1
       THEN /\ arenas' = [arenas EXCEPT ![a] = after]
            /\ UNCHANGED lock_exists
       ELSE IF arenas[a].dir_path = NoPath
       THEN /\ arenas' = [arenas EXCEPT ![a] = UnusedArena]
            /\ UNCHANGED lock_exists
       ELSE /\ arenas' = [arenas EXCEPT ![a] =
                   [after EXCEPT !.status = "unlocking",
                                 !.reserved_names = {}]]
            /\ lock_exists' = [lock_exists EXCEPT ![arenas[a].dir_path] = FALSE]
    /\ UNCHANGED <<dir_exists, jVars, dbVars, aoVars, raVars, stVars, smVars, lmVars, mfVars, rwVars, omVars, sfVars>>

\* The rest of Drop for LandfillInner: remove_dir_all when the self destruct
\* sequence was initiated.
LandfillDropFinish(a) ==
    LET p == arenas[a].dir_path IN
    /\ arenas[a].status = "unlocking"
    /\ arenas' = [arenas EXCEPT ![a] = UnusedArena]
    /\ IF arenas[a].self_destruct
       THEN /\ dir_exists' = [dir_exists EXCEPT ![p] = FALSE]
            /\ lock_exists' = [lock_exists EXCEPT ![p] = FALSE]
       ELSE UNCHANGED <<dir_exists, lock_exists>>
    /\ lf_last' = LastOp("drop_finish", "ok", 0, <<>>)
    /\ UNCHANGED <<jVars, dbVars, aoVars, raVars, stVars, smVars, lmVars, mfVars, rwVars, omVars, sfVars>>

(***************************************************************************)
(* Journal: src/src/storage/journal.rs                                     *)
(***************************************************************************)
JOURNAL_SIZE == 1024    \* SIZE of Journal<u64, 1024>, in bytes
ENTRY_SIZE   == 16      \* size_of::<JournalEntry<u64>>(): packed u64 + u64
NEntries     == JOURNAL_SIZE \div ENTRY_SIZE   \* length of the cast slice
NoValue      == -1      \* Option::None of JournalEntry::get

\* JournalEntry::checksum.  SeaHash is modelled by a function that is
\* never zero and whose upper and lower half each determine the value, so
\* that two halves taken from the checksums of different values match no
\* value at all.
Checksum(value) == (value + 1) * 65

\* JournalEntry::new
EntryNew(value) == [checksum |-> Checksum(value), value |-> value]
ZeroEntry == [checksum |-> 0, value |-> 0]

\* JournalEntry::get: the value when the checksum validates
EntryGetUnchecked(entry) == entry.value
EntryGet(entry) ==
    IF Checksum(entry.value) = entry.checksum THEN entry.value ELSE NoValue

\* The scan of Journal::open from entry i on: the index of the first
\* validating entry whose value is greater than every one before it.
RECURSIVE ScanFrom(_, _, _, _)
ScanFrom(ring, i, latest_entry_index, candidate) ==
    IF i >= NEntries THEN latest_entry_index
    ELSE LET val == EntryGet(ring[i]) IN
         IF val # NoValue /\ val > candidate
         THEN ScanFrom(ring, i + 1, i, val)
         ELSE ScanFrom(ring, i + 1, latest_entry_index, candidate)

\* a scan that stops at the first validating entry
RECURSIVE ScanFirstFrom(_, _, _, _)
ScanFirstFrom(ring, i, latest_entry_index, candidate) ==
    IF i >= NEntries THEN latest_entry_index
    ELSE LET val == EntryGet(ring[i]) IN
         IF val # NoValue /\ val > candidate
         THEN i
         ELSE ScanFirstFrom(ring, i + 1, latest_entry_index, candidate)

\* Journal::open: latest_entry_index after the scan, T::default() = 0
OpenScanFirst(ring) == ScanFirstFrom(ring, 0, 0, 0)
OpenScan(ring) == ScanFrom(ring, 0, 0, 0)

\* JournalInner::update, Disk: the slot the new entry goes to
NextEntry(latest_entry_index) == (latest_entry_index + 1) % JOURNAL_SIZE

\* The assertions of JournalInner::update
DiskAccepts(value, old_value) == value >= old_value
MemAcceptsEqual(value, value_copy) == value >= value_copy
MemAccepts(value, value_copy) == value > value_copy

\* What a halt in the middle of the 16-byte store can leave in the slot: each
\* half of the checksum and of the value is either the old or the new one.
TearWords == {"c_hi", "c_lo", "v_hi", "v_lo"}
Torn(old, new, mask) ==
    LET Pick(w, o, n) == IF w \in mask THEN n ELSE o IN
    [checksum |-> Pick("c_hi", old.checksum \div 64, new.checksum \div 64) * 64
                  + Pick("c_lo", old.checksum % 64, new.checksum % 64),
     value    |-> Pick("v_hi", old.value \div 2, new.value \div 2) * 2
                  + Pick("v_lo", old.value % 2, new.value % 2)]

IdleUpdate == [pc |-> "idle", old |-> 0, new |-> 0, prev_slot |-> ZeroEntry]
NoCrash    == [active |-> FALSE, pre |-> 0, post |-> 0, slot |-> 0]

\* The value an update would hand to its closure now
JournalValue ==
    IF j_mode = "disk" THEN j_file[j_latest].value ELSE j_mem

InitJournalIn(modes, open) ==
    /\ j_mode \in modes
    /\ j_file = [i \in 0..(NEntries - 1) |-> ZeroEntry]
    /\ j_latest = 0
    /\ j_mem = 0
    /\ j_open = open
    /\ j_upd = IdleUpdate
    /\ j_hist = [seen |-> 0, ordered |-> TRUE, result |-> "none", n |-> 0,
                 decreased |-> FALSE, crash |-> NoCrash, reopened |-> FALSE]

\* update, step 1: take the lock and read the current value
JournalRead ==
    /\ j_open /\ j_upd.pc = "idle" /\ j_hist.n < MaxUpdates
    /\ j_upd' = [IdleUpdate EXCEPT !.pc = "read", !.old = JournalValue]
    /\ j_hist' = [j_hist EXCEPT !.seen = JournalValue, !.n = @ + 1,
                                !.ordered = @ /\ JournalValue >= j_hist.seen,
                                !.result = "none", !.crash = NoCrash]
    /\ UNCHANGED <<j_mode, j_file, j_latest, j_mem, j_open>>
    /\ UNCHANGED <<lfVars, dbVars, aoVars, raVars, stVars, smVars, lmVars, mfVars, rwVars, omVars, sfVars>>

\* update, step 2: the closure leaves `new` in the working copy; the Mem
\* variant hands the closure the guarded value itself.
JournalApply(new) ==
    /\ j_open /\ j_upd.pc = "read"
    /\ j_upd' = [j_upd EXCEPT !.pc = "applied", !.new = new]
    /\ j_mem' = IF j_mode = "mem" THEN new ELSE j_mem
    /\ j_hist' = [j_hist EXCEPT !.decreased = @ \/ new < j_upd.old]
    /\ UNCHANGED <<j_mode, j_file, j_latest, j_open>>
    /\ UNCHANGED <<lfVars, dbVars, aoVars, raVars, stVars, smVars, lmVars, mfVars, rwVars, omVars, sfVars>>

\* update, step 3: the assertion; the Mem variant returns after it
JournalAssert ==
    /\ j_open /\ j_upd.pc = "applied"
    /\ IF j_mode = "disk"
       THEN IF DiskAccepts(j_upd.new, j_upd.old)
            THEN /\ j_upd' = [j_upd EXCEPT !.pc = "asserted"]
                 /\ UNCHANGED j_hist
            ELSE /\ j_upd' = [j_upd EXCEPT !.pc = "idle"]
                 /\ j_hist' = [j_hist EXCEPT !.result = "panic"]
       ELSE /\ j_upd' = [j_upd EXCEPT !.pc = "idle"]
            /\ j_hist' = [j_hist EXCEPT !.result =
                   IF MemAccepts(j_upd.new, j_upd.old) THEN "ok" ELSE "panic"]
    /\ UNCHANGED <<j_mode, j_file, j_latest, j_mem, j_open>>
    /\ UNCHANGED <<lfVars, dbVars, aoVars, raVars, stVars, smVars, lmVars, mfVars, rwVars, omVars, sfVars>>

\* update, step 4: store the new entry in the next slot; indexing the slice
\* of NEntries entries out of range panics
JournalWrite ==
    LET next_entry == NextEntry(j_latest) IN
    /\ j_open /\ j_upd.pc = "asserted"
    /\ IF next_entry >= NEntries
       THEN /\ j_upd' = [j_upd EXCEPT !.pc = "idle"]
            /\ j_hist' = [j_hist EXCEPT !.result = "panic"]
            /\ UNCHANGED j_file
       ELSE /\ j_upd' = [j_upd EXCEPT !.pc = "written",
                                      !.prev_slot = j_file[next_entry]]
            /\ j_file' = [j_file EXCEPT ![next_entry] = EntryNew(j_upd.new)]
            /\ UNCHANGED j_hist
    /\ UNCHANGED <<j_mode, j_latest, j_mem, j_open>>
    /\ UNCHANGED <<lfVars, dbVars, aoVars, raVars, stVars, smVars, lmVars, mfVars, rwVars, omVars, sfVars>>

\* update, step 5: map.flush()
JournalFlush ==
    /\ j_open /\ j_upd.pc = "written"
    /\ j_upd' = [j_upd EXCEPT !.pc = "flushed"]
    /\ UNCHANGED <<j_mode, j_file, j_latest, j_mem, j_open, j_hist>>
    /\ UNCHANGED <<lfVars, dbVars, aoVars, raVars, stVars, smVars, lmVars, mfVars, rwVars, omVars, sfVars>>

\* update, step 5 failing: map.flush()? returns the I/O error; the entry
\* stays stored in the mapping and the cursor is not advanced
JournalFlushFail ==
    /\ j_open /\ j_upd.pc = "written"
    /\ j_upd' = [j_upd EXCEPT !.pc = "idle"]
    /\ j_hist' = [j_hist EXCEPT !.result = "err"]
    /\ UNCHANGED <<j_mode, j_file, j_latest, j_mem, j_open>>
    /\ UNCHANGED <<lfVars, dbVars, aoVars, raVars, stVars, smVars, lmVars, mfVars, rwVars, omVars, sfVars>>

\* update, step 6: advance the cursor and return
JournalAdvance ==
    /\ j_open /\ j_upd.pc = "flushed"
    /\ j_latest' = NextEntry(j_latest)
    /\ j_upd' = [j_upd EXCEPT !.pc = "idle"]
    /\ j_hist' = [j_hist EXCEPT !.result = "ok"]
    /\ UNCHANGED <<j_mode, j_file, j_mem, j_open>>
    /\ UNCHANGED <<lfVars, dbVars, aoVars, raVars, stVars, smVars, lmVars, mfVars, rwVars, omVars, sfVars>>

\* The machine halts.  Everything in memory is lost; an entry stored but not
\* yet flushed reaches the disk in part (any `mask` of its halves).
JournalCrash(mask) ==
    LET next_entry == NextEntry(j_latest)
        pre  == IF j_upd.pc = "idle" THEN JournalValue ELSE j_upd.old
        post == IF j_upd.pc \in {"idle", "read"} \/ j_upd.new < j_upd.old
                THEN pre ELSE j_upd.new
    IN
    /\ j_mode = "disk" /\ j_open
    /\ IF j_upd.pc = "written"
       THEN j_file' = [j_file EXCEPT ![next_entry] =
                          Torn(j_upd.prev_slot, j_file[next_entry], mask)]
       ELSE mask = {} /\ UNCHANGED j_file
    /\ j_open' = FALSE
    /\ j_latest' = 0
    /\ j_upd' = IdleUpdate
    /\ j_hist' = [j_hist EXCEPT !.result = "none",
                                !.crash = [active |-> TRUE, pre |-> pre,
                                           post |-> post,
                                           slot |-> next_entry]]
    /\ UNCHANGED <<j_mode, j_mem>>
    /\ UNCHANGED <<lfVars, dbVars, aoVars, raVars, stVars, smVars, lmVars, mfVars, rwVars, omVars, sfVars>>

\* The Journal is dropped between two updates
JournalClose ==
    /\ j_mode = "disk" /\ j_open /\ j_upd.pc = "idle"
    /\ j_open' = FALSE
    /\ j_latest' = 0
    /\ UNCHANGED <<j_mode, j_file, j_mem, j_upd, j_hist>>
    /\ UNCHANGED <<lfVars, dbVars, aoVars, raVars, stVars, smVars, lmVars, mfVars, rwVars, omVars, sfVars>>

\* Journal::open on the existing file
JournalOpen ==
    /\ j_mode = "disk" /\ ~j_open
    /\ j_open' = TRUE
    /\ j_latest' = OpenScan(j_file)
    /\ j_hist' = [j_hist EXCEPT !.reopened = TRUE]
    /\ UNCHANGED <<j_mode, j_file, j_mem, j_upd>>
    /\ UNCHANGED <<lfVars, dbVars, aoVars, raVars, stVars, smVars, lmVars, mfVars, rwVars, omVars, sfVars>>

\* Journal::update(|v| *v += 1) on the disk journal, from the lock to the
\* return: read the entry at the cursor, assert, store into next_entry, flush,
\* advance.  Indexing the slice of NEntries entries out of range panics
\* before anything is stored.
JournalIncrement ==
    LET old_value  == JournalValue
        value      == old_value + 1
        next_entry == NextEntry(j_latest)
        ok         == DiskAccepts(value, old_value) /\ next_entry < NEntries
    IN
    /\ j_mode = "disk" /\ j_open /\ j_upd.pc = "idle"
    /\ j_upd' = [IdleUpdate EXCEPT !.old = old_value, !.new = value]
    /\ IF ok
       THEN /\ j_file' = [j_file EXCEPT ![next_entry] = EntryNew(value)]
            /\ j_latest' = next_entry
       ELSE UNCHANGED <<j_file, j_latest>>
    /\ j_hist' = [j_hist EXCEPT !.seen = old_value,
                                !.ordered = @ /\ old_value >= j_hist.seen,
                                !.result = IF ok THEN "ok" ELSE "panic",
                                !.crash = NoCrash]
    /\ UNCHANGED <<j_mode, j_mem, j_open>>
    /\ UNCHANGED <<lfVars, dbVars, aoVars, raVars, stVars, smVars, lmVars, mfVars, rwVars, omVars, sfVars>>

(***************************************************************************)
(* Segmented byte arena: src/src/storage/bytes.rs (and src/src/bytes.rs)   *)
(***************************************************************************)
N_LANES   == 32
InitSizes == {1, 2, 4}      \* the values of INIT_SIZE that are modelled
None      == <<-1>>         \* Option::None of a read
Panic     == <<-2>>         \* a panic instead of a result

RECURSIVE Pow2(_)
Pow2(n) == IF n = 0 THEN 1 ELSE 2 * Pow2(n - 1)

\* bits - leading_zeros(i) - 1, for i >= 1
RECURSIVE FloorLog2(_)
FloorLog2(i) == IF i <= 1 THEN 0 ELSE 1 + FloorLog2(i \div 2)

\* DiskBytes::lane_size
LaneSize(init, lane) == init * Pow2(lane)

\* The logical offset of the first byte of a lane
LaneStart(init, lane) == (Pow2(lane) - 1) * init

\* DiskBytes::lane_nr_and_ofs: <<lane_nr, offset inside the lane>>
LaneNrAndOfsWholeLanes(init, offset) ==
    LET i       == offset \div init + 1
        lane_nr == FloorLog2(i)
    IN <<lane_nr, offset - Pow2(lane_nr) * init>>
LaneNrAndOfs(init, offset) ==
    LET i       == offset \div init + 1
        lane_nr == FloorLog2(i)
    IN <<lane_nr, offset - (Pow2(lane_nr) - 1) * init>>

\* DiskBytes::find_space_for
FindSpaceForNoSkip(init, offset, len) == offset
RECURSIVE FindSpaceFor(_, _, _)
FindSpaceFor(init, offset, len) ==
    LET l         == LaneNrAndOfs(init, offset)
        lane_size == LaneSize(init, l[1])
    IN IF l[2] + len <= lane_size
       THEN offset
       ELSE FindSpaceFor(init, offset + (lane_size - l[2]), len)

\* DiskBytes::request_write: the range check before the lane is looked up
FitsInLane(init, offset, len) ==
    LET l == LaneNrAndOfs(init, offset) IN l[2] + len <= LaneSize(init, l[1])

\* The byte at position `inner` of a lane's mapping.  Lane files are created
\* zero-filled by set_len; only offsets below MaxOffset are ever written.
LaneByte(init, memory, lane, inner) ==
    LET o == LaneStart(init, lane) + inner IN
    IF o < MaxOffset THEN memory[o] ELSE 0

\* DiskBytes::read: None across a lane boundary and for an unmapped lane
DiskBytesReadLaneZero(init, mapped, memory, offset, len) ==
    LET l == LaneNrAndOfs(init, offset) IN
    IF l[2] + len > LaneSize(init, l[1]) THEN None
    ELSE [k \in 1..len |-> LaneByte(init, memory, 0, l[2] + k - 1)]
DiskBytesRead(init, mapped, memory, offset, len) ==
    LET l == LaneNrAndOfs(init, offset) IN
    IF l[2] + len > LaneSize(init, l[1]) THEN None
    ELSE IF l[1] \in mapped
         THEN [k \in 1..len |-> LaneByte(init, memory, l[1], l[2] + k - 1)]
         ELSE None

\* The slice handed out by request_write, after copy_from_slice(bytes)
WriteBytes(init, memory, offset, bytes) ==
    LET l == LaneNrAndOfs(init, offset) IN
    [o \in DOMAIN memory |->
        LET k == o - (LaneStart(init, l[1]) + l[2]) + 1 IN
        IF k >= 1 /\ k <= Len(bytes) THEN bytes[k] ELSE memory[o]]

\* DiskBytes::open / try_from: every lane whose file exists gets mapped
OpenLanesUntilMissing(files) ==
    {i \in 0..(N_LANES - 1) : \A j \in 0..i : j \in files}
OpenLanes(files) == {i \in 0..(N_LANES - 1) : i \in files}

InitDiskBytes ==
    /\ init_size \in InitSizes
    /\ lanes = {}
    /\ lane_files = {}
    /\ mem = [o \in 0..(MaxOffset - 1) |-> 0]

(***************************************************************************)
(* Append-only log: src/src/storage/appendonly.rs, with the entropy tag of *)
(* src/src/storage/entropy.rs                                              *)
(***************************************************************************)
Threads == {1, 2}
NoSeed  == 0
Seeds   == {5, 6}

\* Entropy::tag: the checksum of () under the seeds, truncated to 32 bits
TagOf(seed) == (seed * 7) % 4

\* The closure AppendOnly::write hands to the journal: the value it stores
AdvanceWriteheadNot(res, len) == res
AdvanceWritehead(res, len) == res + len

IdleThread == [pc |-> "idle", bytes |-> <<>>, offset |-> 0, id |-> 0]

\* The writehead the next journal update reads
Writehead == IF j_mode = "disk" THEN j_file[j_latest].value ELSE j_mem

\* AppendOnly::get: the bytes of a record, or a panic
AoGet(rec) ==
    IF rec.tag # ao_tag THEN Panic
    ELSE LET r == DiskBytesRead(init_size, lanes, mem, rec.offset, rec.length)
         IN IF r = None THEN Panic ELSE r

InitAppendOnly ==
    /\ ent_file = NoSeed
    /\ ao_tag = 0
    /\ ao_open = FALSE
    /\ ao_thr = [t \in Threads |-> IdleThread]
    /\ ao_hist = [records |-> {}, resv |-> {}, n |-> 0, session |-> 0,
                  panics |-> 0]

\* AppendOnly::open: Entropy::open reads the seed file or generates and
\* writes one, DiskBytes::open maps the lane files that exist, Journal::open
\* scans the ring.
AoOpen(seed) ==
    /\ j_mode = "disk" /\ ~ao_open /\ ao_hist.session < MaxSessions
    /\ ent_file' = IF ent_file = NoSeed THEN seed ELSE ent_file
    /\ ao_tag' = TagOf(ent_file')
    /\ lanes' = OpenLanes(lane_files)
    /\ j_latest' = OpenScan(j_file)
    /\ j_open' = TRUE
    /\ ao_open' = TRUE
    /\ ao_hist' = [ao_hist EXCEPT !.session = @ + 1]
    /\ UNCHANGED <<j_mode, j_file, j_mem, j_upd, j_hist, init_size,
                   lane_files, mem, ao_thr>>
    /\ UNCHANGED <<lfVars, raVars, stVars, smVars, lmVars, mfVars, rwVars, omVars, sfVars>>

\* AppendOnly::ephemeral: anonymous maps, Journal::ephemeral, fresh entropy
AoEphemeral(seed) ==
    /\ j_mode = "mem" /\ ~ao_open /\ ao_hist.session = 0
    /\ ao_tag' = TagOf(seed)
    /\ j_open' = TRUE
    /\ ao_open' = TRUE
    /\ ao_hist' = [ao_hist EXCEPT !.session = @ + 1]
    /\ UNCHANGED <<j_mode, j_file, j_latest, j_mem, j_upd, j_hist, dbVars,
                   ent_file, ao_thr>>
    /\ UNCHANGED <<lfVars, raVars, stVars, smVars, lmVars, mfVars, rwVars, omVars, sfVars>>

\* AppendOnly::write, first part: journal.update with the closure
\*   |writehead| { res = find_space_for(*writehead, len);
\*                 *writehead = res + len; res }
\* run under the journal mutex.  The bytes of write number n are n, n, ...
AoReserve(t, len) ==
    LET old   == Writehead
        res   == FindSpaceFor(init_size, old, len)
        value == AdvanceWritehead(res, len)
        next_entry == NextEntry(j_latest)
        id    == ao_hist.n + 1
        ok    == IF j_mode = "disk"
                 THEN DiskAccepts(value, old) /\ next_entry < NEntries
                 ELSE MemAccepts(value, old)
    IN
    /\ ao_open /\ ao_thr[t].pc = "idle" /\ ao_hist.n < MaxWrites
    /\ res + len <= MaxOffset
    /\ IF j_mode = "disk"
       THEN /\ UNCHANGED j_mem
            /\ IF ok
               THEN /\ j_file' = [j_file EXCEPT ![next_entry] = EntryNew(value)]
                    /\ j_latest' = next_entry
               ELSE UNCHANGED <<j_file, j_latest>>
       ELSE /\ j_mem' = value
            /\ UNCHANGED <<j_file, j_latest>>
    /\ IF ok
       THEN /\ ao_thr' = [ao_thr EXCEPT ![t] =
                   [pc |-> "reserved", bytes |-> [k \in 1..len |-> id],
                    offset |-> res, id |-> id]]
            /\ ao_hist' = [ao_hist EXCEPT !.n = id, !.resv = @ \cup
                   {[id |-> id, offset |-> res, length |-> len,
                     pre |-> old, post |-> value]}]
       ELSE /\ ao_hist' = [ao_hist EXCEPT !.n = id, !.panics = @ + 1]
            /\ UNCHANGED ao_thr
    /\ UNCHANGED <<j_mode, j_open, j_upd, j_hist, dbVars, ent_file, ao_tag,
                   ao_open>>
    /\ UNCHANGED <<lfVars, raVars, stVars, smVars, lmVars, mfVars, rwVars, omVars, sfVars>>

\* AppendOnly::write, second part: request_write makes sure the lane is
\* mapped (creating its file on disk) and hands out the slice.
AoRequestWrite(t) ==
    LET l == LaneNrAndOfs(init_size, ao_thr[t].offset) IN
    /\ ao_open /\ ao_thr[t].pc = "reserved"
    /\ IF FitsInLane(init_size, ao_thr[t].offset, Len(ao_thr[t].bytes))
       THEN /\ lanes' = lanes \cup {l[1]}
            /\ lane_files' = IF j_mode = "disk" THEN lane_files \cup {l[1]}
                             ELSE lane_files
            /\ ao_thr' = [ao_thr EXCEPT ![t].pc = "mapped"]
       ELSE /\ ao_thr' = [ao_thr EXCEPT ![t] = IdleThread]
            /\ UNCHANGED <<lanes, lane_files>>
    /\ UNCHANGED <<jVars, init_size, mem, ent_file, ao_tag, ao_open, ao_hist>>
    /\ UNCHANGED <<lfVars, raVars, stVars, smVars, lmVars, mfVars, rwVars, omVars, sfVars>>

\* AppendOnly::write, last part: copy_from_slice and the Record returned
AoCopy(t) ==
    /\ ao_open /\ ao_thr[t].pc = "mapped"
    /\ mem' = WriteBytes(init_size, mem, ao_thr[t].offset, ao_thr[t].bytes)
    /\ ao_thr' = [ao_thr EXCEPT ![t] = IdleThread]
    /\ ao_hist' = [ao_hist EXCEPT !.records = @ \cup
           {[id |-> ao_thr[t].id, offset |-> ao_thr[t].offset,
             length |-> Len(ao_thr[t].bytes), tag |-> ao_tag,
             bytes |-> ao_thr[t].bytes, session |-> ao_hist.session]}]
    /\ UNCHANGED <<jVars, init_size, lanes, lane_files, ent_file, ao_tag,
                   ao_open>>
    /\ UNCHANGED <<lfVars, raVars, stVars, smVars, lmVars, mfVars, rwVars, omVars, sfVars>>

\* The AppendOnly is dropped (no write is running: write borrows the log);
\* the mappings and the cursor are gone, the files stay.
AoDrop ==
    /\ j_mode = "disk" /\ ao_open
    /\ \A t \in Threads : ao_thr[t].pc = "idle"
    /\ ao_open' = FALSE
    /\ j_open' = FALSE
    /\ lanes' = {}
    /\ j_latest' = 0
    /\ ao_tag' = 0
    /\ UNCHANGED <<j_mode, j_file, j_mem, j_upd, j_hist, init_size,
                   lane_files, mem, ent_file, ao_thr, ao_hist>>
    /\ UNCHANGED <<lfVars, raVars, stVars, smVars, lmVars, mfVars, rwVars, omVars, sfVars>>

(***************************************************************************)
(* Random-access array: src/src/storage/randomaccess.rs                    *)
(***************************************************************************)
N_LOCKS == 256
TSizes  == {1, 2, 3}        \* the values of size_of::<T>() that are modelled

\* helpers::is_all_zeroes
FirstByteZero(bytes) == bytes[1] = 0
IsAllZeroes(bytes) == \A k \in DOMAIN bytes : bytes[k] = 0

\* The records a closure may store: zero, or a 1 in the first or last byte
SlotValues(ts) ==
    {[k \in 1..ts |-> 0], [k \in 1..ts |-> IF k = 1 THEN 1 ELSE 0],
     [k \in 1..ts |-> IF k = ts THEN 1 ELSE 0]}

ByteOffset(index, ts) == index * ts

\* RandomAccess::get: the record behind the guard, or None
RaGetResult(index) ==
    LET slice == DiskBytesRead(init_size, lanes, mem,
                               ByteOffset(index, t_size), t_size)
    IN IF slice # None /\ ~IsAllZeroes(slice) THEN slice ELSE None

\* The bytes at [index * size, (index + 1) * size) of the logical arena
SlotBytes(index) ==
    [k \in 1..t_size |->
        LET o == ByteOffset(index, t_size) + k - 1 IN
        IF o < MaxOffset THEN mem[o] ELSE 0]

\* The path of the arena that holds the array
RaPath == CHOOSE p \in Paths : TRUE

NoRecords == [i \in 0..MaxIndex |-> None]
RaHist0 == [written |-> NoRecords, opened |-> FALSE, reopened |-> FALSE,
            destroyed |-> FALSE,
            wiped |-> FALSE]

\* Drop for LandfillInner: the lane files left in the directory, which
\* remove_dir_all empties when the self destruct sequence was initiated
FilesAfterDropNone(files, self_destruct) == {}
FilesAfterDropAll(files, self_destruct) == files
FilesAfterDrop(files, self_destruct) == IF self_destruct THEN {} ELSE files

InitRandomAccess ==
    /\ t_size \in TSizes
    /\ ra_last = [op |-> "none", index |-> 0, value |-> None,
                  result |-> "none", lanes_before |-> {}]
    /\ ra_open = FALSE
    /\ ra_sd = FALSE
    /\ ra_hist = RaHist0

\* Landfill::open(path) followed by substructure::<RandomAccess<T>>: the lock
\* file is created and the lane files that exist are mapped.
RaOpen ==
    /\ ~ra_open
    /\ dir_exists' = [dir_exists EXCEPT ![RaPath] = TRUE]
    /\ IF lock_exists[RaPath]
       THEN /\ ra_last' = [op |-> "open", index |-> 0, value |-> None,
                           result |-> "err", lanes_before |-> {}]
            /\ UNCHANGED <<lock_exists, lanes, ra_open, ra_hist>>
       ELSE /\ lock_exists' = [lock_exists EXCEPT ![RaPath] = TRUE]
            /\ lanes' = OpenLanes(lane_files)
            /\ ra_open' = TRUE
            /\ ra_hist' = [ra_hist EXCEPT !.opened = TRUE,
                                          !.reopened = ra_hist.opened]
            /\ ra_last' = [op |-> "open", index |-> 0, value |-> None,
                           result |-> "ok", lanes_before |-> {}]
    /\ UNCHANGED <<arenas, lf_last, init_size, lane_files, mem, t_size, ra_sd>>
    /\ UNCHANGED <<jVars, aoVars, stVars, smVars, lmVars, mfVars, rwVars, omVars, sfVars>>

\* Landfill::initiate_self_destruct_sequence on the open arena
RaSelfDestruct ==
    /\ ra_open /\ ~ra_sd
    /\ ra_sd' = TRUE
    /\ UNCHANGED <<stVars, smVars, lmVars, mfVars, rwVars, omVars, sfVars, lfVars, jVars, dbVars, aoVars, t_size, ra_last, ra_open,
                   ra_hist>>

\* Every handle of the arena is dropped (the array with its mappings, then
\* the Landfill): Drop for LandfillInner removes `_lock` and, when the self
\* destruct sequence was initiated, the directory with the lane files.
RaDrop ==
    LET files == FilesAfterDrop(lane_files, ra_sd)
        gone  == lane_files \ files
    IN
    /\ ra_open
    /\ ra_open' = FALSE
    /\ ra_sd' = FALSE
    /\ lanes' = {}
    /\ lock_exists' = [lock_exists EXCEPT ![RaPath] = FALSE]
    /\ dir_exists' = [dir_exists EXCEPT ![RaPath] = ~ra_sd]
    /\ lane_files' = files
    /\ mem' = [o \in DOMAIN mem |->
                 IF LaneNrAndOfs(init_size, o)[1] \in gone THEN 0 ELSE mem[o]]
    /\ ra_hist' = IF ra_sd
                  THEN [ra_hist EXCEPT !.written = NoRecords,
                                       !.destroyed = TRUE,
                                       !.wiped = ra_hist.written # NoRecords]
                  ELSE ra_hist
    /\ ra_last' = [op |-> "drop", index |-> 0, value |-> None,
                   result |-> IF ra_sd THEN "destroyed" ELSE "ok",
                   lanes_before |-> {}]
    /\ UNCHANGED <<arenas, lf_last, init_size, t_size>>
    /\ UNCHANGED <<jVars, aoVars, stVars, smVars, lmVars, mfVars, rwVars, omVars, sfVars>>

\* RandomAccess::with_mut with the closure |s| *s = value
RaWithMut(index, value) ==
    LET ofs == ByteOffset(index, t_size)
        l   == LaneNrAndOfs(init_size, ofs)
        fits == FitsInLane(init_size, ofs, t_size)
    IN
    /\ ra_open
    /\ ofs + t_size <= MaxOffset
    /\ IF fits
       THEN /\ lanes' = lanes \cup {l[1]}
            /\ lane_files' = lane_files \cup {l[1]}
            /\ mem' = WriteBytes(init_size, mem, ofs, value)
       ELSE UNCHANGED <<lanes, lane_files, mem>>
    /\ ra_last' = [op |-> "with_mut", index |-> index, value |-> value,
                   result |-> IF fits THEN "ok" ELSE "err",
                   lanes_before |-> {}]
    /\ ra_hist' = IF fits
                  THEN [ra_hist EXCEPT
                           !.written[index] =
                               IF IsAllZeroes(value) THEN None ELSE value,
                           !.destroyed = FALSE]
                  ELSE ra_hist
    /\ UNCHANGED <<init_size, t_size, ra_open, ra_sd>>
    /\ UNCHANGED <<lfVars, jVars, aoVars, stVars, smVars, lmVars, mfVars, rwVars, omVars, sfVars>>

\* RandomAccess::get
RaGet(index) ==
    /\ ra_open
    /\ ra_last' = [op |-> "get", index |-> index,
                   value |-> RaGetResult(index),
                   result |-> IF RaGetResult(index) = None THEN "none"
                              ELSE "some",
                   lanes_before |-> lanes]
    /\ UNCHANGED <<init_size, lanes, lane_files, mem, t_size, ra_open, ra_sd,
                   ra_hist>>
    /\ UNCHANGED <<lfVars, jVars, aoVars, stVars, smVars, lmVars, mfVars, rwVars, omVars, sfVars>>

(***************************************************************************)
(* One array shared by threads: tests/random.rs (random_access_stress),    *)
(* with RandomAccess::with_mut and DiskBytes::request_write in steps       *)
(***************************************************************************)
Writers == Threads
NoHolder == 0

\* The lane-size / record-size pairs of the shared array: every slot lies
\* inside one lane
StressShapes == {<<1, 1>>, <<2, 2>>}

\* The record a writer stores: every byte holds the writer's origin
RecordOf(t) == [k \in 1..t_size |-> t]

\* The stripe whose lock guards an index
Stripe(index) == index % N_LOCKS

\* RwLock::write may be granted: nobody holds the stripe
WriteLockAlways(locks, stripe) == TRUE
WriteLockFree(locks, stripe) == \A l \in locks : l.stripe # stripe

\* map_file_inner: the name is in already_mapped
AlreadyMappedNever(claimed, name) == FALSE
AlreadyMapped(claimed, name) == name \in claimed

LaneOf(index) == LaneNrAndOfs(init_size, ByteOffset(index, t_size))[1]

\* self.lanes[lane_nr].set(lane_file): the cells that are set afterwards
LaneSetLost(cells, lane_nr) == cells
LaneSet(cells, lane_nr) == cells \cup {lane_nr}

IdleWriter == [pc |-> "idle", index |-> 0, saw |-> None]

StHist0 ==
    [created |-> [l \in 0..(N_LANES - 1) |-> 0],
     stores  |-> [i \in 0..MaxIndex |-> <<>>],
     refused |-> {},
     entered |-> {},
     spun    |-> {}]

InitStressIn(variants, targets) ==
    /\ st_variant \in variants
    /\ st_thr = [t \in Writers |-> IdleWriter]
    /\ st_locks = {}
    /\ st_claimed = {}
    /\ st_io = NoHolder
    /\ st_rd \in {[pc |-> "scan", idx |-> 0, target |-> t] : t \in targets}
    /\ st_hist = StHist0

\* with_mut, first part: a writer picks a random index and takes the write
\* lock of its stripe
StWithMutLock(t, index) ==
    /\ st_thr[t].pc = "idle"
    /\ WriteLockFree(st_locks, Stripe(index))
    /\ st_locks' = st_locks \cup {[thread |-> t, stripe |-> Stripe(index)]}
    /\ st_thr' = [st_thr EXCEPT ![t] = [pc |-> "locked", index |-> index,
                                        saw |-> None]]
    /\ UNCHANGED <<st_variant, st_claimed, st_io, st_rd, st_hist>>
    /\ UNCHANGED <<lfVars, jVars, dbVars, aoVars, raVars, smVars, lmVars, mfVars, rwVars, omVars, sfVars>>

\* request_write: the range check, then self.lanes[lane_nr].get(); this is
\* also where a spinning thread looks again
StRequestWrite(t) ==
    LET index == st_thr[t].index IN
    /\ st_thr[t].pc = "locked"
    /\ IF ~FitsInLane(init_size, ByteOffset(index, t_size), t_size)
       THEN /\ st_thr' = [st_thr EXCEPT ![t] = [IdleWriter EXCEPT
                                                   !.pc = "failed"]]
            /\ st_locks' = {l \in st_locks : l.thread # t}
       ELSE /\ st_thr' = [st_thr EXCEPT ![t].pc =
                   IF LaneOf(index) \in lanes THEN "mapped"
                   ELSE IF st_variant = "spin" THEN "create" ELSE "io"]
            /\ UNCHANGED st_locks
    /\ UNCHANGED <<st_variant, st_claimed, st_io, st_rd, st_hist>>
    /\ UNCHANGED <<lfVars, jVars, dbVars, aoVars, raVars, smVars, lmVars, mfVars, rwVars, omVars, sfVars>>

\* Landfill::map_file_create (map_file_inner), under the already_mapped
\* mutex: None for a name handed out before, else the file is created and
\* the name registered
StMapFileCreate(t) ==
    LET lane == LaneOf(st_thr[t].index) IN
    /\ st_thr[t].pc = "create"
    /\ IF AlreadyMapped(st_claimed, lane)
       THEN /\ st_thr' = [st_thr EXCEPT ![t].pc = "locked"]
            /\ st_hist' = [st_hist EXCEPT !.spun = @ \cup {t}]
            /\ UNCHANGED <<st_claimed, lane_files>>
       ELSE /\ st_thr' = [st_thr EXCEPT ![t].pc = "set"]
            /\ st_claimed' = st_claimed \cup {lane}
            /\ lane_files' = lane_files \cup {lane}
            /\ st_hist' = [st_hist EXCEPT !.created[lane] = @ + 1]
    /\ UNCHANGED <<st_variant, st_locks, st_io, st_rd>>
    /\ UNCHANGED <<init_size, lanes, mem>>
    /\ UNCHANGED <<lfVars, jVars, aoVars, raVars, smVars, lmVars, mfVars, rwVars, omVars, sfVars>>

\* request_write: self.lanes[lane_nr].set(lane_file)
StLaneSet(t) ==
    /\ st_thr[t].pc = "set"
    /\ lanes' = LaneSet(lanes, LaneOf(st_thr[t].index))
    /\ st_thr' = [st_thr EXCEPT ![t].pc = "mapped"]
    /\ UNCHANGED <<st_variant, st_locks, st_claimed, st_io, st_rd, st_hist>>
    /\ UNCHANGED <<init_size, lane_files, mem>>
    /\ UNCHANGED <<lfVars, jVars, aoVars, raVars, smVars, lmVars, mfVars, rwVars, omVars, sfVars>>

\* request_write of bytes.rs: self.io_mutex.lock()
StIoLock(t) ==
    /\ st_thr[t].pc = "io"
    /\ st_io = NoHolder
    /\ st_io' = t
    /\ st_thr' = [st_thr EXCEPT ![t].pc = "recheck"]
    /\ UNCHANGED <<st_variant, st_locks, st_claimed, st_rd, st_hist>>
    /\ UNCHANGED <<lfVars, jVars, dbVars, aoVars, raVars, smVars, lmVars, mfVars, rwVars, omVars, sfVars>>

\* request_write of bytes.rs: the second look under io_mutex, Lane::disk and
\* the set if the lane is still missing; the guard is dropped
StIoCreate(t) ==
    LET lane == LaneOf(st_thr[t].index) IN
    /\ st_thr[t].pc = "recheck"
    /\ IF lane \in lanes
       THEN UNCHANGED <<lanes, lane_files, st_hist>>
       ELSE /\ lanes' = lanes \cup {lane}
            /\ lane_files' = lane_files \cup {lane}
            /\ st_hist' = [st_hist EXCEPT !.created[lane] = @ + 1]
    /\ st_io' = NoHolder
    /\ st_thr' = [st_thr EXCEPT ![t].pc = "mapped"]
    /\ UNCHANGED <<st_variant, st_locks, st_claimed, st_rd>>
    /\ UNCHANGED <<init_size, mem>>
    /\ UNCHANGED <<lfVars, jVars, aoVars, raVars, smVars, lmVars, mfVars, rwVars, omVars, sfVars>>

\* The closure of the stress test, first half: *slot == Record::zeroed()
StClosureRead(t) ==
    /\ st_thr[t].pc = "mapped"
    /\ st_thr' = [st_thr EXCEPT ![t].pc = "seen",
                                ![t].saw = SlotBytes(st_thr[t].index)]
    /\ st_hist' = [st_hist EXCEPT !.entered = @ \cup {st_thr[t].index}]
    /\ UNCHANGED <<st_variant, st_locks, st_claimed, st_io, st_rd>>
    /\ UNCHANGED <<lfVars, jVars, dbVars, aoVars, raVars, smVars, lmVars, mfVars, rwVars, omVars, sfVars>>

\* The closure, second half: *slot = record and true, or false; then
\* drop(guard).  A writer that stored is done, the others try again.
StClosureStore(t) ==
    LET index == st_thr[t].index
        empty == IsAllZeroes(st_thr[t].saw)
    IN
    /\ st_thr[t].pc = "seen"
    /\ IF empty
       THEN /\ mem' = WriteBytes(init_size, mem, ByteOffset(index, t_size),
                                 RecordOf(t))
            /\ st_hist' = [st_hist EXCEPT
                              !.stores[index] = Append(@, t)]
       ELSE /\ st_hist' = [st_hist EXCEPT
                              !.refused = @ \cup {<<t, index>>}]
            /\ UNCHANGED mem
    /\ st_locks' = {l \in st_locks : l.thread # t}
    /\ st_thr' = [st_thr EXCEPT ![t] = [IdleWriter EXCEPT
                     !.pc = IF empty THEN "done" ELSE "idle"]]
    /\ UNCHANGED <<st_variant, st_claimed, st_io, st_rd>>
    /\ UNCHANGED <<init_size, lanes, lane_files>>
    /\ UNCHANGED <<lfVars, jVars, aoVars, raVars, smVars, lmVars, mfVars, rwVars, omVars, sfVars>>

\* The reader of the stress test: get(idx % N_SLOTS) under the read lock of
\* the stripe, compared with the record it looks for; idx += 1 on a miss
StReaderGet ==
    /\ st_rd.pc = "scan"
    /\ WriteLockFree(st_locks, Stripe(st_rd.idx))
    /\ st_rd' = IF RaGetResult(st_rd.idx) = RecordOf(st_rd.target)
                THEN [st_rd EXCEPT !.pc = "found"]
                ELSE [st_rd EXCEPT !.idx = (@ + 1) % (MaxIndex + 1)]
    /\ UNCHANGED <<st_variant, st_thr, st_locks, st_claimed, st_io, st_hist>>
    /\ UNCHANGED <<lfVars, jVars, dbVars, aoVars, raVars, smVars, lmVars, mfVars, rwVars, omVars, sfVars>>

\* The reader as a holder of a stripe lock
ReaderId == Cardinality(Writers) + 1

\* RandomAccessGuard { item, _guard }: the read guard lives as long as the
\* value that get returned
GuardDroppedEarly(locks, stripe) == locks
GuardHeld(locks, stripe) ==
    locks \cup {[thread |-> ReaderId, stripe |-> stripe]}

\* get: self.locks[index % N_LOCKS].read(), then bytes.read and the test for
\* zeroes; Some(guard) keeps the read lock, None drops it on return
GdGet ==
    /\ st_rd.pc = "scan"
    /\ WriteLockFree(st_locks, Stripe(st_rd.idx))
    /\ IF RaGetResult(st_rd.idx) = None
       THEN /\ st_rd' = [st_rd EXCEPT !.idx = (@ + 1) % (MaxIndex + 1)]
            /\ UNCHANGED st_locks
       ELSE /\ st_rd' = [st_rd EXCEPT !.pc = "holding"]
            /\ st_locks' = GuardHeld(st_locks, Stripe(st_rd.idx))
    /\ UNCHANGED <<st_variant, st_thr, st_claimed, st_io, st_hist>>
    /\ UNCHANGED <<lfVars, jVars, dbVars, aoVars, raVars, smVars, lmVars, mfVars, rwVars, omVars, sfVars>>

\* The RandomAccessGuard goes out of scope: the read lock is released
GdGuardDrop ==
    /\ st_rd.pc = "holding"
    /\ st_locks' = {l \in st_locks : l.thread # ReaderId}
    /\ st_rd' = [st_rd EXCEPT !.pc = "scan",
                              !.idx = (@ + 1) % (MaxIndex + 1)]
    /\ UNCHANGED <<st_variant, st_thr, st_claimed, st_io, st_hist>>
    /\ UNCHANGED <<lfVars, jVars, dbVars, aoVars, raVars, smVars, lmVars, mfVars, rwVars, omVars, sfVars>>

\* with_mut with the closure |slot| *slot = record, which stores over
\* whatever the slot holds: the first byte of the record is in place
GdClosureFirstByte(t) ==
    /\ st_thr[t].pc = "mapped"
    /\ mem' = WriteBytes(init_size, mem,
                         ByteOffset(st_thr[t].index, t_size), <<t>>)
    /\ st_thr' = [st_thr EXCEPT ![t].pc = "half"]
    /\ UNCHANGED <<st_variant, st_locks, st_claimed, st_io, st_rd, st_hist>>
    /\ UNCHANGED <<init_size, lanes, lane_files>>
    /\ UNCHANGED <<lfVars, jVars, aoVars, raVars, smVars, lmVars, mfVars, rwVars, omVars, sfVars>>

\* The rest of the record is stored, the closure returns and with_mut
\* drops the write guard
GdClosureRest(t) ==
    /\ st_thr[t].pc = "half"
    /\ mem' = WriteBytes(init_size, mem,
                         ByteOffset(st_thr[t].index, t_size), RecordOf(t))
    /\ st_locks' = {l \in st_locks : l.thread # t}
    /\ st_thr' = [st_thr EXCEPT ![t] = IdleWriter]
    /\ UNCHANGED <<st_variant, st_claimed, st_io, st_rd, st_hist>>
    /\ UNCHANGED <<init_size, lanes, lane_files>>
    /\ UNCHANGED <<lfVars, jVars, aoVars, raVars, smVars, lmVars, mfVars, rwVars, omVars, sfVars>>

\* The steps of a writer that holds its stripe lock
StWriterStep(t) ==
    \/ StRequestWrite(t)
    \/ StMapFileCreate(t)
    \/ StLaneSet(t)
    \/ StIoLock(t)
    \/ StIoCreate(t)
    \/ StClosureRead(t)
    \/ StClosureStore(t)

(***************************************************************************)
(* SmashMap: src/src/structures/smash.rs, over the slots of an Array<V>    *)
(***************************************************************************)
INITIAL_FANOUT == 1024
Keys == {1, 2, 3}
SmThreads == {1}
SmValues == {1, 2}              \* the non-zero values on_empty returns
HashStates == {1, 2, 1025}      \* the checksums that are modelled
SmashShapes == {<<1, 1>>, <<4, 3>>}

\* The ways the checksum of an entropy_state falls that are modelled:
\* always on the same state, or on the next state
Rehashes ==
    {[e \in HashStates |-> 1],
     [e \in HashStates |-> IF e = 1 THEN 2 ELSE IF e = 2 THEN 1025 ELSE 1]}

\* Checksums that fall on the last slot of band 0 and of band 1, for the
\* searches that retry at the end of a band
ProbeStates == {INITIAL_FANOUT - 1, 2 * INITIAL_FANOUT - 1}
ProbeRehashes == {[e \in ProbeStates |-> 2 * INITIAL_FANOUT - 1]}

\* A search visits at most each occupied slot twice before an empty one
ProbeLimit == 2 * Cardinality(Keys) + 2

\* SearchPattern::new
SearchNew(entropy_state) ==
    [entropy_state |-> entropy_state, fanout |-> INITIAL_FANOUT,
     offset |-> 0, retries |-> 0, tries_limit |-> 1]

\* SearchPattern::get_slot
GetSlot(search) ==
    search.offset + (search.entropy_state % search.fanout) + search.retries

\* SearchPattern::calculate_next
CalculateNext(search, rehash) ==
    IF search.retries + 1 = search.tries_limit
    THEN [entropy_state |-> rehash[search.entropy_state],
          fanout |-> search.fanout * 2,
          offset |-> search.offset + search.fanout,
          retries |-> 0,
          tries_limit |-> search.tries_limit * 2]
    ELSE [search EXCEPT !.retries = @ + 1]

\* Array::get on the slots: the value, or Empty (all zeroes, read as None)
\* for a slot never written
Empty == 0
SlotValue(slots, slot) ==
    IF \E r \in slots : r.slot = slot
    THEN (CHOOSE r \in slots : r.slot = slot).value
    ELSE Empty

\* Array::with_mut reaches the slot: request_write refuses a slot that lies
\* across two lanes
SlotWritable(slot) ==
    FitsInLane(init_size, ByteOffset(slot, t_size), t_size)

\* insert, inside with_mut: !helpers::is_all_zeroes(&[*mut_slot])
SlotTakenNever(value) == FALSE
SlotTaken(value) == value # Empty

\* get: the match arm `None => return`
GetHitsEmptyNever(value) == FALSE
GetHitsEmpty(value) == value = Empty

IdleSearch ==
    [op |-> "none", pc |-> "idle", key |-> 0, value |-> 0, halts |-> FALSE,
     search |-> SearchNew(0), probes |-> 0, seen |-> {}, known |-> FALSE,
     result |-> "none"]

InitSmashIn(hashes, rehashes) ==
    /\ sm_hash \in {h \in [Keys -> hashes] :
                       \A j \in Keys, k \in Keys : j <= k => h[j] <= h[k]}
    /\ sm_rehash \in rehashes
    /\ sm_slots = {}
    /\ sm_thr = [t \in SmThreads |-> IdleSearch]
    /\ sm_hist = [started |-> {}, inserted |-> [k \in Keys |-> 0],
                  failed |-> {}]

\* insert(key, |s, _| s.proceed(), |_| Ok(value)) is called; every key is
\* inserted once
SmInsert(t, key, value) ==
    /\ sm_thr[t].pc = "idle"
    /\ key \notin sm_hist.started
    /\ sm_thr' = [sm_thr EXCEPT ![t] =
           [IdleSearch EXCEPT !.op = "insert", !.pc = "probe", !.key = key,
                              !.value = value,
                              !.search = SearchNew(sm_hash[key])]]
    /\ sm_hist' = [sm_hist EXCEPT !.started = @ \cup {key}]
    /\ UNCHANGED <<sm_hash, sm_rehash, sm_slots>>
    /\ UNCHANGED <<lfVars, jVars, dbVars, aoVars, raVars, stVars, lmVars, mfVars, rwVars, omVars, sfVars>>

\* insert, one turn of the loop: self.slots.get(slot); an occupied slot is
\* shown to on_occupied, which proceeds
SmInsertProbe(t) ==
    LET me   == sm_thr[t]
        slot == GetSlot(me.search)
        v    == SlotValue(sm_slots, slot)
    IN
    /\ me.op = "insert" /\ me.pc = "probe" /\ me.probes < ProbeLimit
    /\ sm_thr' = [sm_thr EXCEPT ![t] =
           IF v # Empty
           THEN [me EXCEPT !.search = CalculateNext(me.search, sm_rehash),
                           !.probes = @ + 1]
           ELSE [me EXCEPT !.pc = "write"]]
    /\ UNCHANGED <<sm_hash, sm_rehash, sm_slots, sm_hist>>
    /\ UNCHANGED <<lfVars, jVars, dbVars, aoVars, raVars, stVars, lmVars, mfVars, rwVars, omVars, sfVars>>

\* insert, the empty slot: self.slots.with_mut(slot, ..) fails for a slot
\* across two lanes, shows a slot written in the meantime to on_occupied,
\* and else stores on_empty's value
SmInsertWrite(t) ==
    LET me   == sm_thr[t]
        slot == GetSlot(me.search)
        v    == SlotValue(sm_slots, slot)
    IN
    /\ me.op = "insert" /\ me.pc = "write"
    /\ IF ~SlotWritable(slot)
       THEN /\ sm_thr' = [sm_thr EXCEPT ![t] =
                   [me EXCEPT !.pc = "done", !.result = "err"]]
            /\ sm_hist' = [sm_hist EXCEPT !.failed = @ \cup {me.key}]
            /\ UNCHANGED sm_slots
       ELSE IF SlotTaken(v)
       THEN /\ sm_thr' = [sm_thr EXCEPT ![t] =
                   [me EXCEPT !.pc = "probe",
                              !.search = CalculateNext(me.search, sm_rehash),
                              !.probes = @ + 1]]
            /\ UNCHANGED <<sm_slots, sm_hist>>
       ELSE /\ sm_slots' = {r \in sm_slots : r.slot # slot} \cup
                   {[slot |-> slot, value |-> me.value, key |-> me.key]}
            /\ sm_thr' = [sm_thr EXCEPT ![t] =
                   [me EXCEPT !.pc = "done", !.result = "ok"]]
            /\ sm_hist' = [sm_hist EXCEPT !.inserted[me.key] = me.value]
    /\ UNCHANGED <<sm_hash, sm_rehash>>
    /\ UNCHANGED <<lfVars, jVars, dbVars, aoVars, raVars, stVars, lmVars, mfVars, rwVars, omVars, sfVars>>

\* The slot an insert ends at: the first empty slot of the probe path
FirstEmptyUnprobed(slots, rehash, search, fuel) == CalculateNext(search, rehash)
RECURSIVE FirstEmpty(_, _, _, _)
FirstEmpty(slots, rehash, search, fuel) ==
    IF fuel = 0 \/ SlotValue(slots, GetSlot(search)) = Empty THEN search
    ELSE FirstEmpty(slots, rehash, CalculateNext(search, rehash), fuel - 1)

\* An insert by another thread while a call of this thread is running.  It
\* takes effect at its with_mut, under the slot's write lock: the slots
\* before on its path are occupied and stay so.
SmInsertOther(key, value) ==
    LET slot == GetSlot(FirstEmpty(sm_slots, sm_rehash,
                                   SearchNew(sm_hash[key]), ProbeLimit))
    IN
    /\ \E t \in SmThreads : sm_thr[t].pc \in {"probe", "write"}
    /\ key \notin sm_hist.started
    /\ IF SlotWritable(slot)
       THEN /\ sm_slots' = sm_slots \cup
                   {[slot |-> slot, value |-> value, key |-> key]}
            /\ sm_hist' = [sm_hist EXCEPT !.started = @ \cup {key},
                                          !.inserted[key] = value]
       ELSE /\ sm_hist' = [sm_hist EXCEPT !.started = @ \cup {key},
                                          !.failed = @ \cup {key}]
            /\ UNCHANGED sm_slots
    /\ UNCHANGED <<sm_hash, sm_rehash, sm_thr>>
    /\ UNCHANGED <<lfVars, jVars, dbVars, aoVars, raVars, stVars, lmVars, mfVars, rwVars, omVars, sfVars>>

\* get(key, on_occupied) is called; on_occupied halts at the value it looks
\* for (halts) or always proceeds
SmGet(t, key, value, halts) ==
    /\ sm_thr[t].pc = "idle"
    /\ sm_hist.inserted[key] # 0 => value = sm_hist.inserted[key]
    /\ sm_thr' = [sm_thr EXCEPT ![t] =
           [IdleSearch EXCEPT !.op = "get", !.pc = "probe", !.key = key,
                              !.value = value, !.halts = halts,
                              !.known = sm_hist.inserted[key] # 0,
                              !.search = SearchNew(sm_hash[key])]]
    /\ UNCHANGED <<sm_hash, sm_rehash, sm_slots, sm_hist>>
    /\ UNCHANGED <<lfVars, jVars, dbVars, aoVars, raVars, stVars, lmVars, mfVars, rwVars, omVars, sfVars>>

\* get, one turn of the loop
SmGetProbe(t) ==
    LET me   == sm_thr[t]
        slot == GetSlot(me.search)
        v    == SlotValue(sm_slots, slot)
        owner == IF \E r \in sm_slots : r.slot = slot
                 THEN (CHOOSE r \in sm_slots : r.slot = slot).key ELSE 0
    IN
    /\ me.op = "get" /\ me.pc = "probe" /\ me.probes < ProbeLimit
    /\ sm_thr' = [sm_thr EXCEPT ![t] =
           IF GetHitsEmpty(v)
           THEN [me EXCEPT !.pc = "done", !.result = "empty"]
           ELSE IF me.halts /\ v = me.value
           THEN [me EXCEPT !.pc = "done", !.result = "halt",
                           !.seen = @ \cup {[value |-> v, key |-> owner]}]
           ELSE [me EXCEPT !.seen = @ \cup {[value |-> v, key |-> owner]},
                           !.search = CalculateNext(me.search, sm_rehash),
                           !.probes = @ + 1]]
    /\ UNCHANGED <<sm_hash, sm_rehash, sm_slots, sm_hist>>
    /\ UNCHANGED <<lfVars, jVars, dbVars, aoVars, raVars, stVars, lmVars, mfVars, rwVars, omVars, sfVars>>

\* The caller goes on after insert or get has returned
SmReturn(t) ==
    /\ sm_thr[t].pc = "done"
    /\ sm_thr' = [sm_thr EXCEPT ![t] = IdleSearch]
    /\ UNCHANGED <<sm_hash, sm_rehash, sm_slots, sm_hist>>
    /\ UNCHANGED <<lfVars, jVars, dbVars, aoVars, raVars, stVars, lmVars, mfVars, rwVars, omVars, sfVars>>

\* The steps of a call that is running
SmStep(t) == SmInsertProbe(t) \/ SmInsertWrite(t) \/ SmGetProbe(t)

(***************************************************************************)
(* Lane arithmetic applied to given arguments: src/src/storage/bytes.rs    *)
(***************************************************************************)
MaxLaneOffset == 1100
LaneInitSizes == {1, 17, 32, 1024}
LaneLens      == {0, 1, 3, 18, 100}
Alignments    == {1, 4}

\* DiskBytes::lane_nr_and_ofs_slow_but_obviously_correct
RECURSIVE LaneNrAndOfsSlow(_, _, _)
LaneNrAndOfsSlow(init, lane_nr, offset) ==
    IF LaneSize(init, lane_nr) <= offset
    THEN LaneNrAndOfsSlow(init, lane_nr + 1, offset - LaneSize(init, lane_nr))
    ELSE <<lane_nr, offset>>

NoOutput == [op |-> "none", res |-> 0, fast |-> <<0, 0>>, slow |-> <<0, 0>>]

InitLaneMathIn(inits, offsets, lens, alignments) ==
    /\ lm_in \in [init : inits, offset : offsets, len : lens,
                  alignment : alignments]
    /\ lm_out = NoOutput

\* lane_nr_and_ofs(offset) and the slow decomposition, as test_lane_math
\* calls them
LmLaneNrAndOfs ==
    /\ lm_out.op = "none"
    /\ lm_out' = [NoOutput EXCEPT
                     !.op = "lane_nr_and_ofs",
                     !.fast = LaneNrAndOfs(lm_in.init, lm_in.offset),
                     !.slow = LaneNrAndOfsSlow(lm_in.init, 0, lm_in.offset)]
    /\ UNCHANGED lm_in
    /\ UNCHANGED <<lfVars, jVars, dbVars, aoVars, raVars, stVars, smVars, mfVars, rwVars, omVars, sfVars>>

\* find_space_for(offset, len), called for a record that is to be written
\* with the alignment asked for: the function takes no alignment
LmFindSpaceFor ==
    /\ lm_out.op = "none"
    /\ lm_out' = [NoOutput EXCEPT
                     !.op = "find_space_for",
                     !.res = FindSpaceFor(lm_in.init, lm_in.offset, lm_in.len)]
    /\ UNCHANGED lm_in
    /\ UNCHANGED <<lfVars, jVars, dbVars, aoVars, raVars, stVars, smVars, mfVars, rwVars, omVars, sfVars>>

\* A u64 offset beyond the integers of the checker is held as <<hi, lo>>,
\* hi * Limb + lo, with the arithmetic of lane_nr_and_ofs done limb by limb
LimbBits   == 20
Limb       == Pow2(LimbBits)
MaxHiBits  == 14
WideOne    == <<0, 1>>
WideOf(n)  == <<n \div Limb, n % Limb>>
WideAdd(x, y) ==
    LET lo == x[2] + y[2] IN <<x[1] + y[1] + lo \div Limb, lo % Limb>>
WideSub(x, y) ==
    IF x[2] >= y[2] THEN <<x[1] - y[1], x[2] - y[2]>>
    ELSE <<x[1] - y[1] - 1, x[2] + Limb - y[2]>>
WideDiv(x, d) == <<x[1] \div d, ((x[1] % d) * Limb + x[2]) \div d>>
WideMul(x, m) ==
    LET lo == x[2] * m IN <<x[1] * m + lo \div Limb, lo % Limb>>
WidePow2(n) ==
    IF n < LimbBits THEN <<0, Pow2(n)>> ELSE <<Pow2(n - LimbBits), 0>>
WideGreater(x, y) == x[1] > y[1] \/ (x[1] = y[1] /\ x[2] > y[2])
\* bits - leading_zeros(i) - 1
WideLog2(x) ==
    IF x[1] > 0 THEN LimbBits + FloorLog2(x[1]) ELSE FloorLog2(x[2])

\* DiskBytes::lane_nr_and_ofs and lane_size on such offsets
WideLaneNrAndOfs(init, offset) ==
    LET i       == WideAdd(WideDiv(offset, init), WideOne)
        lane_nr == WideLog2(i)
    IN <<lane_nr,
         WideSub(offset, WideMul(WideSub(WidePow2(lane_nr), WideOne), init))>>
WideLaneSize(init, lane) == WideMul(WidePow2(lane), init)

\* The offsets asked for: around the first byte of every lane and of every
\* limb
WideOffsets ==
    {<<hi, lo>> : hi \in {0} \cup {Pow2(n) - d : n \in 0..MaxHiBits,
                                               d \in {0, 1}},
                  lo \in {0, 1, Limb - 2, Limb - 1}}
WideLens == {1, 2}

CrossLaneErr == <<-3>>      \* Err("Cannot write between lanes")

\* self.lanes[lane_nr] of an array of N_LANES cells: the index is checked,
\* a lane number from N_LANES on panics
LanesIndex(lane_nr, found) == IF lane_nr >= N_LANES THEN Panic ELSE found

\* DiskBytes::read of an offset, on an arena whose lanes `mapped` exist
WideRead(init, mapped, offset, len) ==
    LET l == WideLaneNrAndOfs(init, offset) IN
    IF WideGreater(WideAdd(l[2], WideOf(len)), WideLaneSize(init, l[1]))
    THEN None
    ELSE LanesIndex(l[1], IF l[1] \in mapped THEN <<l[1]>> ELSE None)

\* DiskBytes::request_write of an offset: the lane is created when missing
WideRequestWrite(init, offset, len) ==
    LET l == WideLaneNrAndOfs(init, offset) IN
    IF WideGreater(WideAdd(l[2], WideOf(len)), WideLaneSize(init, l[1]))
    THEN CrossLaneErr
    ELSE LanesIndex(l[1], <<l[1]>>)

LcRead ==
    /\ lm_out.op = "none"
    /\ lm_out' = [NoOutput EXCEPT
                     !.op = "read",
                     !.res = WideRead(lm_in.init, lanes, lm_in.offset,
                                      lm_in.len),
                     !.fast = WideLaneNrAndOfs(lm_in.init, lm_in.offset)]
    /\ UNCHANGED lm_in
    /\ UNCHANGED <<lfVars, jVars, dbVars, aoVars, raVars, stVars, smVars, mfVars, rwVars, omVars, sfVars>>

LcRequestWrite ==
    LET res == WideRequestWrite(lm_in.init, lm_in.offset, lm_in.len) IN
    /\ lm_out.op = "none"
    /\ lm_out' = [NoOutput EXCEPT
                     !.op = "request_write",
                     !.res = res,
                     !.fast = WideLaneNrAndOfs(lm_in.init, lm_in.offset)]
    /\ lanes' = IF res \in {CrossLaneErr, Panic} THEN lanes
                ELSE lanes \cup {res[1]}
    /\ lane_files' = IF res \in {CrossLaneErr, Panic} THEN lane_files
                     ELSE lane_files \cup {res[1]}
    /\ UNCHANGED <<lm_in, init_size, mem>>
    /\ UNCHANGED <<lfVars, jVars, aoVars, raVars, stVars, smVars, mfVars, rwVars, omVars, sfVars>>

(***************************************************************************)
(* File mappings of one arena: Landfill::map_file_create and its siblings  *)
(* in src/src/disk/mod.rs and in src/src/landfill.rs                       *)
(***************************************************************************)
MaxMaps == 2
FullNames == {"a_00", "a_01"}

\* HashSet::insert on reserved_names: true when the name was not reserved
Inserted(names, name) == name \notin names

NoCall == [op |-> "none", name |-> "", result |-> "none", claimed |-> FALSE,
           maps |-> 0]

InitMapFileIn(variants) ==
    /\ mf_variant \in variants
    /\ mf_names = {}
    /\ mf_files \in SUBSET FullNames
    /\ mf_maps = [n \in FullNames |-> 0]
    /\ mf_last = NoCall

\* map_file_create.  disk/mod.rs maps when register_name returns false and
\* returns None when it returns true; landfill.rs returns None for a name in
\* already_mapped and else creates or opens the file, maps it and inserts
\* the name.
MfMapFileCreate(name) ==
    LET claimed == ~Inserted(mf_names, name)
        maps    == IF mf_variant = "disk" THEN claimed ELSE ~claimed
    IN
    /\ mf_maps[name] < MaxMaps
    /\ mf_names' = mf_names \cup {name}
    /\ mf_files' = IF maps THEN mf_files \cup {name} ELSE mf_files
    /\ mf_maps' = IF maps THEN [mf_maps EXCEPT ![name] = @ + 1] ELSE mf_maps
    /\ mf_last' = [op |-> "map_file_create", name |-> name,
                   result |-> IF maps THEN "some" ELSE "none",
                   claimed |-> claimed, maps |-> mf_maps[name]]
    /\ UNCHANGED mf_variant
    /\ UNCHANGED <<lfVars, jVars, dbVars, aoVars, raVars, stVars, smVars,
                   lmVars, sfVars, omVars, rwVars>>

\* map_file_existing (disk/mod.rs) and map_file (landfill.rs): None for a
\* name already reserved and for a file that does not exist.  disk/mod.rs
\* reserves the name in every case, landfill.rs only when it maps.
MfMapFileExisting(name) ==
    LET claimed == ~Inserted(mf_names, name)
        maps    == ~claimed /\ name \in mf_files
    IN
    /\ mf_maps[name] < MaxMaps
    /\ mf_names' = IF mf_variant = "disk" \/ maps
                   THEN mf_names \cup {name} ELSE mf_names
    /\ mf_maps' = IF maps THEN [mf_maps EXCEPT ![name] = @ + 1] ELSE mf_maps
    /\ mf_last' = [op |-> "map_file_existing", name |-> name,
                   result |-> IF maps THEN "some" ELSE "none",
                   claimed |-> claimed, maps |-> mf_maps[name]]
    /\ UNCHANGED <<mf_variant, mf_files>>
    /\ UNCHANGED <<lfVars, jVars, dbVars, aoVars, raVars, stVars, smVars,
                   lmVars, sfVars, omVars, rwVars>>

(***************************************************************************)
(* Static blobs: Landfill::get_static_or_init (src/src/disk/mod.rs) and    *)
(* Entropy::open (src/src/storage/entropy.rs)                              *)
(***************************************************************************)
Byte    == 2            \* a byte of the model is 0 or 1, a T has two bytes
NoFile  == <<>>         \* the file does not exist
NoBlob  == -1           \* no blob was returned yet
StaticNames  == {<<"a">>, <<"b">>}      \* full names of branches
EntropyName  == <<"entropy">>            \* the file of Entropy::open
StaticFiles  == StaticNames \cup {EntropyName}
Blobs == 0..(Byte * Byte - 1)            \* what init or generate returns

\* bytemuck::cast_slice: the bytes of a T in memory, low byte first
CastSlice(t) == <<t % Byte, t \div Byte>>
\* a read that takes the bytes of the file in the opposite order
CastSliceMutSwapped(bytes) == bytes[2] + Byte * bytes[1]
\* bytemuck::cast_slice_mut after read_exact: the T made of the bytes
CastSliceMut(bytes) == bytes[1] + Byte * bytes[2]

NoStatic == [op |-> "none", name |-> <<>>, init |-> FALSE, result |-> NoBlob,
             existed |-> FALSE]
StHistory0 == [first |-> [n \in StaticFiles |-> NoBlob], reopened |-> FALSE]

InitStaticIn(modes) ==
    /\ sf_mode \in modes
    /\ sf_open = TRUE
    /\ sf_files = [n \in StaticFiles |-> NoFile]
    /\ sf_last = NoStatic
    /\ sf_hist = StHistory0

\* a body that takes a fresh value on every call
ReadOrInitFresh(op, name, t) ==
    /\ sf_files' = [sf_files EXCEPT ![name] = CastSlice(t)]
    /\ sf_last' = [op |-> op, name |-> name, init |-> TRUE,
                   result |-> t, existed |-> sf_files[name] # NoFile]
    /\ sf_hist' = IF sf_hist.first[name] = NoBlob
                  THEN [sf_hist EXCEPT !.first[name] = t]
                  ELSE sf_hist
\* The body shared by get_static_or_init and Entropy::open: read the file
\* when it exists, else produce the value `t`, write its bytes and return it.
ReadOrInit(op, name, t) ==
    LET exists == sf_files[name] # NoFile
        result == IF exists THEN CastSliceMut(sf_files[name]) ELSE t
    IN
    /\ sf_files' = IF exists THEN sf_files
                   ELSE [sf_files EXCEPT ![name] = CastSlice(t)]
    /\ sf_last' = [op |-> op, name |-> name, init |-> ~exists,
                   result |-> result, existed |-> exists]
    /\ sf_hist' = IF sf_hist.first[name] = NoBlob
                  THEN [sf_hist EXCEPT !.first[name] = result]
                  ELSE sf_hist

\* Landfill::get_static_or_init on the branch `name`; `t` is what init()
\* returns if it is called.  An ephemeral arena has no path: init() runs on
\* every call and nothing is stored.
GetStaticOrInit(name, t) ==
    /\ sf_open
    /\ IF sf_mode = "disk"
       THEN ReadOrInit("get_static_or_init", name, t)
       ELSE /\ sf_last' = [op |-> "get_static_or_init", name |-> name,
                           init |-> TRUE, result |-> t, existed |-> FALSE]
            /\ UNCHANGED <<sf_files, sf_hist>>
    /\ UNCHANGED <<sf_mode, sf_open>>
    /\ UNCHANGED <<lfVars, jVars, dbVars, aoVars, raVars, stVars, smVars,
                   lmVars, mfVars, rwVars, omVars>>

\* Entropy::open on the directory of the arena; `t` is what generate()
\* returns if it is called
EntropyOpen(t) ==
    /\ sf_open /\ sf_mode = "disk"
    /\ ReadOrInit("entropy_open", EntropyName, t)
    /\ UNCHANGED <<sf_mode, sf_open>>
    /\ UNCHANGED <<lfVars, jVars, dbVars, aoVars, raVars, stVars, smVars,
                   lmVars, mfVars, rwVars, omVars>>

\* The last handle of the arena is dropped (no self destruct): the files of
\* a disk arena stay, an ephemeral arena leaves nothing
StaticClose ==
    /\ sf_open
    /\ sf_open' = FALSE
    /\ sf_last' = [NoStatic EXCEPT !.op = "close"]
    /\ UNCHANGED <<sf_mode, sf_files, sf_hist>>
    /\ UNCHANGED <<lfVars, jVars, dbVars, aoVars, raVars, stVars, smVars,
                   lmVars, mfVars, rwVars, omVars>>

\* Landfill::open of the same directory, or Landfill::ephemeral again
StaticOpen ==
    /\ ~sf_open
    /\ sf_open' = TRUE
    /\ sf_last' = [NoStatic EXCEPT !.op = "open"]
    /\ sf_hist' = IF sf_mode = "disk"
                  THEN [sf_hist EXCEPT !.reopened = TRUE]
                  ELSE StHistory0
    /\ UNCHANGED <<sf_mode, sf_files>>
    /\ UNCHANGED <<lfVars, jVars, dbVars, aoVars, raVars, stVars, smVars,
                   lmVars, mfVars, rwVars, omVars>>

(***************************************************************************)
(* OnceMap: src/src/structures/oncemap.rs, a SmashMap<K, Entry> `index`    *)
(* over an AppendOnly `data`                                               *)
(***************************************************************************)
\* The width of tag and v_ofs_relative: the low half of a word.  A word of
\* the model has 32 bits, so the half is 2^16 where the code has 2^32.
U32 == 65536
OmThreads == {1, 2}
OmKeys    == {1, 2}
OmValues  == {1, 2}
\* The checksums that are modelled: the last one falls on the slot of the
\* first in band 0 and has its tag_u32
OmStates  == {1, 2, 1 + U32}
OmRehashes ==
    {[e \in OmStates |-> 1],
     [e \in OmStates |-> IF e = 2 THEN 1 ELSE 2]}
\* the cells `data` can hold: a key and a value per insert that stores
MaxCells == 2 * Cardinality(OmKeys) + 2
\* a search passes no more slots than there are entries before an empty one
OmProbeLimit == Cardinality(OmKeys) + 2

\* SearchPattern::tag_u32: the low 32 bits of entropy_state
TagU32(search) == search.entropy_state % U32

\* AppendOnly::write_aligned(bytes, align) for one cell: the journal update
\* returns the writehead as the offset of the record and advances it
WriteAligned(data, cell) == [offset |-> Len(data), data |-> Append(data, cell)]
\* AppendOnly::get(offset, len) for one cell
DataGet(data, offset) == data[offset + 1]

\* Entry { k_ofs, v_ofs_relative, tag }, made by on_empty
EntryOf(k_ofs, v_ofs, tag) ==
    [k_ofs |-> k_ofs, v_ofs_relative |-> (v_ofs - k_ofs) % U32, tag |-> tag]
NoEntry == [k_ofs |-> 0, v_ofs_relative |-> 0, tag |-> 0]   \* Entry::zeroed()

\* Array::get on the slots of the index
IndexGet(index, slot) ==
    IF \E r \in index : r.slot = slot
    THEN (CHOOSE r \in index : r.slot = slot).entry
    ELSE NoEntry

\* an on_occupied that takes no entry for the key of the search
KeyMatchesNever(data, search, entry, k) == FALSE
\* on_occupied of insert and get: the tags are equal and the key stored at
\* k_ofs is the key of the call
KeyMatches(data, search, entry, k) ==
    TagU32(search) = entry.tag /\ DataGet(data, entry.k_ofs) = k

\* The slots of the index whose entry holds key k
EntriesOf(k) ==
    {r \in om_index : DataGet(om_data, r.entry.k_ofs) = k}

NoStripe == N_LOCKS     \* the thread holds no stripe write lock
\* RwLock of the stripe: no writer holds it
StripeFreeAlways(stripe) == TRUE
StripeFree(stripe) == \A u \in OmThreads : om_thr[u].lock # stripe

IdleOnce ==
    [op |-> "none", pc |-> "idle", key |-> 0, value |-> 0,
     search |-> SearchNew(0), probes |-> 0, lock |-> NoStripe, k_ofs |-> 0,
     known |-> FALSE, result |-> 0]

InitOnceMapIn(hashes, rehashes) ==
    /\ om_hash \in {h \in [OmKeys -> hashes] :
                       \A j \in OmKeys, k \in OmKeys : j <= k => h[j] <= h[k]}
    /\ om_rehash \in rehashes
    /\ om_data = <<>>
    /\ om_index = {}
    /\ om_thr = [t \in OmThreads |-> IdleOnce]
    /\ om_hist = [stored |-> [k \in OmKeys |-> 0],
                  stores |-> [k \in OmKeys |-> 0],
                  completed |-> {}]

\* OnceMap::insert(k, v) or OnceMap::get(&k) is called
OmCall(t, op, k, v) ==
    /\ om_thr[t].pc = "idle"
    /\ om_thr' = [om_thr EXCEPT ![t] =
           [IdleOnce EXCEPT !.op = op, !.pc = "probe", !.key = k,
                            !.value = v, !.known = k \in om_hist.completed,
                            !.search = SearchNew(om_hash[k])]]
    /\ UNCHANGED <<om_hash, om_rehash, om_data, om_index, om_hist>>
    /\ UNCHANGED <<lfVars, jVars, dbVars, aoVars, raVars, stVars, smVars,
                   lmVars, mfVars, rwVars, sfVars>>

\* SmashMap::insert and SmashMap::get, one turn of the loop:
\* self.slots.get(slot) under the read lock of the stripe.  An occupied slot
\* goes to on_occupied; an empty one ends a get and sends an insert to
\* with_mut.
OmProbe(t) ==
    LET me    == om_thr[t]
        slot  == GetSlot(me.search)
        entry == IndexGet(om_index, slot)
        v_ofs == entry.k_ofs + entry.v_ofs_relative
    IN
    /\ me.pc = "probe" /\ me.probes < OmProbeLimit
    /\ StripeFree(Stripe(slot))
    /\ om_thr' = [om_thr EXCEPT ![t] =
           IF entry = NoEntry
           THEN IF me.op = "get"
                THEN [me EXCEPT !.pc = "done", !.result = 0]
                ELSE [me EXCEPT !.pc = "with_mut"]
           ELSE IF KeyMatches(om_data, me.search, entry, me.key)
           THEN [me EXCEPT !.pc = "done",
                           !.result = IF me.op = "get"
                                      THEN DataGet(om_data, v_ofs) ELSE 0]
           ELSE [me EXCEPT !.search = CalculateNext(me.search, om_rehash),
                           !.probes = @ + 1]]
    /\ om_hist' = IF me.op = "insert" /\ om_thr'[t].pc = "done"
                  THEN [om_hist EXCEPT !.completed = @ \cup {me.key}]
                  ELSE om_hist
    /\ UNCHANGED <<om_hash, om_rehash, om_data, om_index>>
    /\ UNCHANGED <<lfVars, jVars, dbVars, aoVars, raVars, stVars, smVars,
                   lmVars, mfVars, rwVars, sfVars>>

\* insert: self.slots.with_mut(slot, ..) takes the write lock of the stripe
\* and looks at the slot again: an entry written in the meantime goes to
\* on_occupied, an empty slot to on_empty
OmWithMut(t) ==
    LET me    == om_thr[t]
        slot  == GetSlot(me.search)
        entry == IndexGet(om_index, slot)
    IN
    /\ me.pc = "with_mut"
    /\ StripeFree(Stripe(slot))
    /\ om_thr' = [om_thr EXCEPT ![t] =
           IF entry = NoEntry
           THEN [me EXCEPT !.pc = "write_key", !.lock = Stripe(slot)]
           ELSE IF KeyMatches(om_data, me.search, entry, me.key)
           THEN [me EXCEPT !.pc = "done"]
           ELSE [me EXCEPT !.pc = "probe",
                           !.search = CalculateNext(me.search, om_rehash),
                           !.probes = @ + 1]]
    /\ om_hist' = IF om_thr'[t].pc = "done"
                  THEN [om_hist EXCEPT !.completed = @ \cup {me.key}]
                  ELSE om_hist
    /\ UNCHANGED <<om_hash, om_rehash, om_data, om_index>>
    /\ UNCHANGED <<lfVars, jVars, dbVars, aoVars, raVars, stVars, smVars,
                   lmVars, mfVars, rwVars, sfVars>>

\* on_empty, first half: the key goes to `data`
OmWriteKey(t) ==
    LET me == om_thr[t]
        w  == WriteAligned(om_data, me.key)
    IN
    /\ me.pc = "write_key" /\ Len(om_data) < MaxCells
    /\ om_data' = w.data
    /\ om_thr' = [om_thr EXCEPT ![t] =
           [me EXCEPT !.pc = "write_value", !.k_ofs = w.offset]]
    /\ UNCHANGED <<om_hash, om_rehash, om_index, om_hist>>
    /\ UNCHANGED <<lfVars, jVars, dbVars, aoVars, raVars, stVars, smVars,
                   lmVars, mfVars, rwVars, sfVars>>

\* on_empty, second half: the value goes to `data`, the Entry into the slot,
\* and with_mut releases the write lock
OmWriteValue(t) ==
    LET me   == om_thr[t]
        slot == GetSlot(me.search)
        w    == WriteAligned(om_data, me.value)
    IN
    /\ me.pc = "write_value" /\ Len(om_data) < MaxCells
    /\ om_data' = w.data
    /\ om_index' = om_index \cup
           {[slot |-> slot,
             entry |-> EntryOf(me.k_ofs, w.offset, TagU32(me.search))]}
    /\ om_thr' = [om_thr EXCEPT ![t] =
           [me EXCEPT !.pc = "done", !.lock = NoStripe]]
    /\ om_hist' = [om_hist EXCEPT
           !.stored[me.key] = IF @ = 0 THEN me.value ELSE @,
           !.stores[me.key] = @ + 1,
           !.completed = @ \cup {me.key}]
    /\ UNCHANGED <<om_hash, om_rehash>>
    /\ UNCHANGED <<lfVars, jVars, dbVars, aoVars, raVars, stVars, smVars,
                   lmVars, mfVars, rwVars, sfVars>>

\* with_mut after the closure: drop(guard)
DropGuardKept(lock) == lock
DropGuard(lock) == NoStripe

\* on_empty returns an I/O error, from its first write to `data`: the
\* closure of with_mut leaves by `?` before the store into the slot,
\* with_mut drops the guard and insert returns the error to its caller
OmOnEmptyFail(t) ==
    LET me == om_thr[t] IN
    /\ me.pc = "write_key"
    /\ om_thr' = [om_thr EXCEPT ![t] =
           [me EXCEPT !.op = "insert_err", !.pc = "done", !.k_ofs = 0,
                      !.lock = DropGuard(me.lock)]]
    /\ UNCHANGED <<om_hash, om_rehash, om_data, om_index, om_hist>>
    /\ UNCHANGED <<lfVars, jVars, dbVars, aoVars, raVars, stVars, smVars,
                   lmVars, mfVars, rwVars, sfVars>>

\* The caller goes on after insert or get has returned
OmReturn(t) ==
    /\ om_thr[t].pc = "done"
    /\ om_thr' = [om_thr EXCEPT ![t] = IdleOnce]
    /\ UNCHANGED <<om_hash, om_rehash, om_data, om_index, om_hist>>
    /\ UNCHANGED <<lfVars, jVars, dbVars, aoVars, raVars, stVars, smVars,
                   lmVars, mfVars, rwVars, sfVars>>

\* Entropy::checksum: the SeaHasher seeded with the words of the Entropy,
\* fed x.  A function of the seed and of x into the checksums that are
\* modelled; under seed 2 every checksum is the same.
OmStateSeq == <<1, 2, 1 + U32>>
SeaHasher(seed, x) == OmStateSeq[(((seed + 1) * x) % Len(OmStateSeq)) + 1]

\* The checksums a SmashMap computes with the Entropy of a seed
HashesOf(seed)   == [k \in OmKeys |-> SeaHasher(seed, k)]
RehashesOf(seed) == [e \in OmStates |-> SeaHasher(seed, e)]

\* The OnceMap of an arena on disk right after it was made: the Entropy of
\* its index was generated (`seed`) and stored in the arena
InitSeededOnceMap ==
    \E seed \in Blobs :
        /\ sf_mode = "disk" /\ sf_open = TRUE
        /\ sf_files = [n \in StaticFiles |->
                          IF n = EntropyName THEN CastSlice(seed) ELSE NoFile]
        /\ sf_last = [op |-> "entropy_open", name |-> EntropyName,
                      init |-> TRUE, result |-> seed, existed |-> FALSE]
        /\ sf_hist = [StHistory0 EXCEPT !.first[EntropyName] = seed]
        /\ om_hash = HashesOf(seed)
        /\ om_rehash = RehashesOf(seed)
        /\ om_data = <<>>
        /\ om_index = {}
        /\ om_thr = [t \in OmThreads |-> IdleOnce]
        /\ om_hist = [stored |-> [k \in OmKeys |-> 0],
                      stores |-> [k \in OmKeys |-> 0],
                      completed |-> {}]

\* The OnceMap is dropped between two calls and made again from the arena:
\* data and index are mapped again, and the Entropy of the index is read
\* from its file (`t` is what generate() would return)
OmReopen(t) ==
    /\ \A u \in OmThreads : om_thr[u].pc = "idle"
    /\ sf_open /\ sf_mode = "disk"
    /\ ReadOrInit("entropy_open", EntropyName, t)
    /\ om_hash' = HashesOf(sf_last'.result)
    /\ om_rehash' = RehashesOf(sf_last'.result)
    /\ UNCHANGED <<sf_mode, sf_open, om_data, om_index, om_thr, om_hist>>
    /\ UNCHANGED <<lfVars, jVars, dbVars, aoVars, raVars, stVars, smVars,
                   lmVars, mfVars, rwVars>>

(***************************************************************************)
(* The lane files of a byte arena: DiskBytesRaw (src/src/diskbytes/raw.rs) *)
(* and DiskBytes (src/src/storage/bytes.rs over src/src/landfill.rs)       *)
(***************************************************************************)
\* The lanes that hold the offsets of the model
LaneNrs == 0..FloorLog2(MaxOffset + 1)

NoLaneCall == [op |-> "none", offset |-> 0, len |-> 0, result |-> "none"]

InitLaneFilesIn(variants) ==
    /\ rw_variant \in variants
    /\ rw_open = TRUE
    /\ rw_len = [i \in LaneNrs |-> 0]
    /\ rw_last = NoLaneCall

\* The lanes a write to `lane` maps: DiskBytesRaw::write pushes every lane
\* up to it (while lanes.len() <= lane), DiskBytes::request_write creates
\* the one lane
LanesToMap(variant, mapped, lane) ==
    IF variant = "raw" THEN (0..lane) \ mapped ELSE {lane} \ mapped

\* The size a lane file is opened with when the arena is opened:
\* Mapping::open(&data_path, INIT_SIZE) in DiskBytesRaw::open,
\* landfill.map_file(name, Self::lane_size(i)) in DiskBytes::try_from
OpenSize(variant, init, lane) ==
    IF variant = "raw" THEN init ELSE LaneSize(init, lane)

\* The lanes an open maps: DiskBytesRaw::open stops at the first file that
\* is missing, DiskBytes::try_from maps every file that exists
LanesOpened(variant, files) ==
    {i \in LaneNrs : IF variant = "raw" THEN \A j \in 0..i : j \in files
                                        ELSE i \in files}

\* write / request_write for [offset, offset + len): a range across two
\* lanes is refused; else the missing lanes are created and mapped with
\* Mapping::open / map_file_create, whose set_len gives the file the size
\* lane_size(i).  The slice is taken from the mapping of the lane, which
\* panics when the mapping is shorter than the range.
LaneWrite(offset, len) ==
    LET l      == LaneNrAndOfs(init_size, offset)
        lane   == l[1]
        new    == LanesToMap(rw_variant, lanes, lane)
        len_   == [i \in LaneNrs |-> IF i \in new THEN LaneSize(init_size, i)
                                                   ELSE rw_len[i]]
    IN
    /\ rw_open
    /\ IF l[2] + len > LaneSize(init_size, lane)
       THEN /\ rw_last' = [op |-> "write", offset |-> offset, len |-> len,
                           result |-> "refused"]
            /\ UNCHANGED <<rw_len, lanes, lane_files>>
       ELSE /\ rw_len' = len_
            /\ lanes' = lanes \cup new
            /\ lane_files' = lane_files \cup new
            /\ rw_last' = [op |-> "write", offset |-> offset, len |-> len,
                           result |-> IF l[2] + len > len_[lane]
                                      THEN "panic" ELSE "ok"]
    /\ UNCHANGED <<rw_variant, rw_open, init_size, mem>>
    /\ UNCHANGED <<lfVars, jVars, aoVars, raVars, stVars, smVars, lmVars,
                   mfVars, sfVars, omVars>>

\* flush: the mappings are flushed, no file changes its length
LaneFlush ==
    /\ rw_open
    /\ rw_last' = [NoLaneCall EXCEPT !.op = "flush", !.result = "ok"]
    /\ UNCHANGED <<rw_variant, rw_open, rw_len, dbVars>>
    /\ UNCHANGED <<lfVars, jVars, aoVars, raVars, stVars, smVars, lmVars,
                   mfVars, sfVars, omVars>>

\* The arena is dropped: the mappings go, the files stay
LaneClose ==
    /\ rw_open
    /\ rw_open' = FALSE
    /\ lanes' = {}
    /\ rw_last' = [NoLaneCall EXCEPT !.op = "close", !.result = "ok"]
    /\ UNCHANGED <<rw_variant, rw_len, init_size, lane_files, mem>>
    /\ UNCHANGED <<lfVars, jVars, aoVars, raVars, stVars, smVars, lmVars,
                   mfVars, sfVars, omVars>>

\* DiskBytesRaw::open / DiskBytes::try_from on the same directory, with the
\* same INIT_SIZE: every lane file it maps gets set_len(OpenSize)
LaneOpen ==
    LET opened == LanesOpened(rw_variant, lane_files) IN
    /\ ~rw_open
    /\ rw_open' = TRUE
    /\ lanes' = opened
    /\ rw_len' = [i \in LaneNrs |->
                     IF i \in opened THEN OpenSize(rw_variant, init_size, i)
                                     ELSE rw_len[i]]
    /\ rw_last' = [NoLaneCall EXCEPT !.op = "open", !.result = "ok"]
    /\ UNCHANGED <<rw_variant, init_size, lane_files, mem>>
    /\ UNCHANGED <<lfVars, jVars, aoVars, raVars, stVars, smVars, lmVars,
                   mfVars, sfVars, omVars>>

(***************************************************************************)
(* Specifications                                                          *)
(***************************************************************************)
InitIdleLandfill == InitLandfill
InitIdleJournal  == InitJournalIn({"disk"}, FALSE)
InitIdleBytes    == /\ init_size = 1 /\ lanes = {} /\ lane_files = {}
                    /\ mem = [o \in 0..(MaxOffset - 1) |-> 0]
InitIdleArray    == /\ t_size = 1
                    /\ ra_last = [op |-> "none", index |-> 0, value |-> None,
                                  result |-> "none", lanes_before |-> {}]
                    /\ ra_open = FALSE /\ ra_sd = FALSE
                    /\ ra_hist = RaHist0
InitIdleStress   == InitStressIn({"spin"}, {1})
InitIdleSmash    == InitSmashIn({1}, {[e \in HashStates |-> 1]})
InitIdleLaneMath == InitLaneMathIn({1}, {0}, {0}, {1})
InitIdleMapFile  == InitMapFileIn({"disk"}) /\ mf_files = {}
InitIdleStatic   == InitStaticIn({"disk"})
InitIdleOnceMap  == InitOnceMapIn({1}, {[e \in OmStates |-> 1]})
InitIdleLaneFiles == InitLaneFilesIn({"storage"})

\* The Landfill arena
LandfillInit ==
    InitLandfill /\ InitIdleJournal /\ InitIdleBytes /\ InitAppendOnly
    /\ InitIdleArray /\ InitIdleStress /\ InitIdleSmash /\ InitIdleLaneMath /\ InitIdleMapFile /\ InitIdleStatic /\ InitIdleOnceMap /\ InitIdleLaneFiles
LandfillNext ==
    \/ \E p \in Paths : LandfillOpen(p)
    \/ LandfillEphemeral
    \/ \E a \in ArenaIds : LandfillClone(a)
    \/ \E a \in ArenaIds, name \in UserNames, kind \in SubKinds :
          LandfillSubstructure(a, name, kind)
    \/ \E a \in ArenaIds : LandfillSelfDestruct(a)
    \/ \E a \in ArenaIds : \E sub \in {<<>>} \cup arenas[a].subs :
          LandfillDropHandle(a, sub)
    \/ \E a \in ArenaIds : LandfillDropFinish(a)
LandfillSpec == LandfillInit /\ [][LandfillNext]_vars

\* The arena used through open, clone, substructure and drop only: no
\* handle ever initiates the self destruct sequence
LockFileNext ==
    \/ \E p \in Paths : LandfillOpen(p)
    \/ LandfillEphemeral
    \/ \E a \in ArenaIds : LandfillClone(a)
    \/ \E a \in ArenaIds, name \in UserNames, kind \in SubKinds :
          LandfillSubstructure(a, name, kind)
    \/ \E a \in ArenaIds : \E sub \in {<<>>} \cup arenas[a].subs :
          LandfillDropHandle(a, sub)
    \/ \E a \in ArenaIds : LandfillDropFinish(a)
LockFileSpec == LandfillInit /\ [][LockFileNext]_vars

\* The journal on its own, with machine halts
JournalInit ==
    InitLandfill /\ InitJournalIn({"disk", "mem"}, TRUE) /\ InitIdleBytes
    /\ InitAppendOnly /\ InitIdleArray /\ InitIdleStress /\ InitIdleSmash /\ InitIdleLaneMath /\ InitIdleMapFile /\ InitIdleStatic /\ InitIdleOnceMap /\ InitIdleLaneFiles
JournalNext ==
    \/ JournalRead
    \/ \E new \in 0..MaxValue : JournalApply(new)
    \/ JournalAssert
    \/ JournalWrite
    \/ JournalFlush
    \/ JournalAdvance
    \/ \E mask \in SUBSET TearWords : JournalCrash(mask)
    \/ JournalClose
    \/ JournalOpen
JournalSpec == JournalInit /\ [][JournalNext]_vars

\* One journal object, disk or ephemeral, whose updates may fail: by the
\* assertion or by the flush
JournalFailNext ==
    \/ JournalRead
    \/ \E new \in 0..MaxValue : JournalApply(new)
    \/ JournalAssert
    \/ JournalWrite
    \/ JournalFlush
    \/ JournalFlushFail
    \/ JournalAdvance
JournalFailSpec == JournalInit /\ [][JournalFailNext]_vars

\* The disk journal under a run of incrementing updates, dropped and
\* reopened in between
JournalRingInit ==
    InitLandfill /\ InitJournalIn({"disk"}, TRUE) /\ InitIdleBytes
    /\ InitAppendOnly /\ InitIdleArray /\ InitIdleStress /\ InitIdleSmash /\ InitIdleLaneMath /\ InitIdleMapFile /\ InitIdleStatic /\ InitIdleOnceMap /\ InitIdleLaneFiles
JournalRingNext ==
    \/ JournalIncrement
    \/ JournalClose
    \/ JournalOpen
JournalRingSpec == JournalRingInit /\ [][JournalRingNext]_vars

\* The append-only log with concurrent writers, dropped and reopened
AppendOnlyInit ==
    InitLandfill /\ InitJournalIn({"disk", "mem"}, FALSE) /\ InitDiskBytes
    /\ InitAppendOnly /\ InitIdleArray /\ InitIdleStress /\ InitIdleSmash /\ InitIdleLaneMath /\ InitIdleMapFile /\ InitIdleStatic /\ InitIdleOnceMap /\ InitIdleLaneFiles
AppendOnlyNext ==
    \/ \E seed \in Seeds : AoOpen(seed)
    \/ \E seed \in Seeds : AoEphemeral(seed)
    \/ \E t \in Threads, len \in 0..MaxLen : AoReserve(t, len)
    \/ \E t \in Threads : AoRequestWrite(t)
    \/ \E t \in Threads : AoCopy(t)
    \/ AoDrop
AppendOnlySpec == AppendOnlyInit /\ [][AppendOnlyNext]_vars

\* The random-access array
RandomAccessInit ==
    InitLandfill /\ InitIdleJournal /\ InitDiskBytes /\ InitAppendOnly
    /\ InitRandomAccess /\ InitIdleStress /\ InitIdleSmash /\ InitIdleLaneMath /\ InitIdleMapFile /\ InitIdleStatic /\ InitIdleOnceMap /\ InitIdleLaneFiles
RandomAccessNext ==
    \/ \E index \in 0..MaxIndex, value \in SlotValues(t_size) :
          RaWithMut(index, value)
    \/ \E index \in 0..MaxIndex : RaGet(index)
    \/ RaOpen
    \/ RaSelfDestruct
    \/ RaDrop
RandomAccessSpec == RandomAccessInit /\ [][RandomAccessNext]_vars

\* One array used by two writers and a reader at once.  Threads that can
\* run are scheduled (weak fairness of each writer); the read lock is
\* granted to a reader that keeps asking (strong fairness of its get).
StressInit ==
    /\ InitLandfill /\ InitIdleJournal /\ InitAppendOnly
    /\ \E shape \in StressShapes : init_size = shape[1] /\ t_size = shape[2]
    /\ lanes = {} /\ lane_files = {}
    /\ mem = [o \in 0..(MaxOffset - 1) |-> 0]
    /\ ra_last = [op |-> "none", index |-> 0, value |-> None,
                  result |-> "none", lanes_before |-> {}]
    /\ ra_open = TRUE /\ ra_sd = FALSE /\ ra_hist = RaHist0
    /\ InitStressIn({"spin", "mutex"}, Writers) /\ InitIdleSmash /\ InitIdleLaneMath /\ InitIdleMapFile /\ InitIdleStatic /\ InitIdleOnceMap /\ InitIdleLaneFiles
StressNext ==
    \/ \E t \in Writers, index \in 0..MaxIndex : StWithMutLock(t, index)
    \/ \E t \in Writers : StRequestWrite(t)
    \/ \E t \in Writers : StMapFileCreate(t)
    \/ \E t \in Writers : StLaneSet(t)
    \/ \E t \in Writers : StIoLock(t)
    \/ \E t \in Writers : StIoCreate(t)
    \/ \E t \in Writers : StClosureRead(t)
    \/ \E t \in Writers : StClosureStore(t)
    \/ StReaderGet
StressSpec ==
    /\ StressInit /\ [][StressNext]_vars
    /\ \A t \in Writers : WF_vars(StWriterStep(t))
    /\ SF_vars(StReaderGet)

\* One array whose slots are stored over by two writers while a reader
\* keeps the guards that get returns
GuardInit ==
    /\ InitLandfill /\ InitIdleJournal /\ InitAppendOnly
    /\ \E shape \in StressShapes : init_size = shape[1] /\ t_size = shape[2]
    /\ lanes = {} /\ lane_files = {}
    /\ mem = [o \in 0..(MaxOffset - 1) |-> 0]
    /\ ra_last = [op |-> "none", index |-> 0, value |-> None,
                  result |-> "none", lanes_before |-> {}]
    /\ ra_open = TRUE /\ ra_sd = FALSE /\ ra_hist = RaHist0
    /\ InitStressIn({"mutex"}, {1}) /\ InitIdleSmash /\ InitIdleLaneMath /\ InitIdleMapFile /\ InitIdleStatic /\ InitIdleOnceMap /\ InitIdleLaneFiles
GuardNext ==
    \/ \E t \in Writers, index \in 0..MaxIndex : StWithMutLock(t, index)
    \/ \E t \in Writers : StRequestWrite(t)
    \/ \E t \in Writers : StIoLock(t)
    \/ \E t \in Writers : StIoCreate(t)
    \/ \E t \in Writers : GdClosureFirstByte(t)
    \/ \E t \in Writers : GdClosureRest(t)
    \/ GdGet
    \/ GdGuardDrop
GuardSpec == GuardInit /\ [][GuardNext]_vars

\* A SmashMap used by a thread call by call, with inserts by other threads
\* in between its steps; a call that is running is scheduled
SmashInit ==
    /\ InitLandfill /\ InitIdleJournal /\ InitAppendOnly /\ InitIdleStress
    /\ ra_last = [op |-> "none", index |-> 0, value |-> None,
                  result |-> "none", lanes_before |-> {}]
    /\ ra_open = TRUE /\ ra_sd = FALSE /\ ra_hist = RaHist0
    /\ \E shape \in SmashShapes : init_size = shape[1] /\ t_size = shape[2]
    /\ lanes = {} /\ lane_files = {}
    /\ mem = [o \in 0..(MaxOffset - 1) |-> 0]
    /\ InitSmashIn(HashStates, Rehashes) /\ InitIdleLaneMath /\ InitIdleMapFile /\ InitIdleStatic /\ InitIdleOnceMap /\ InitIdleLaneFiles
SmashNext ==
    \/ \E t \in SmThreads, key \in Keys, value \in SmValues :
          SmInsert(t, key, value)
    \/ \E t \in SmThreads : SmInsertProbe(t)
    \/ \E t \in SmThreads : SmInsertWrite(t)
    \/ \E key \in Keys, value \in SmValues : SmInsertOther(key, value)
    \/ \E t \in SmThreads, key \in Keys, value \in SmValues,
             halts \in BOOLEAN : SmGet(t, key, value, halts)
    \/ \E t \in SmThreads : SmGetProbe(t)
    \/ \E t \in SmThreads : SmReturn(t)
SmashSpec ==
    /\ SmashInit /\ [][SmashNext]_vars
    /\ \A t \in SmThreads : WF_vars(SmStep(t))

\* The same SmashMap with keys whose checksums fall on the end of a band
ProbeInit ==
    /\ InitLandfill /\ InitIdleJournal /\ InitAppendOnly /\ InitIdleStress
    /\ ra_last = [op |-> "none", index |-> 0, value |-> None,
                  result |-> "none", lanes_before |-> {}]
    /\ ra_open = TRUE /\ ra_sd = FALSE /\ ra_hist = RaHist0
    /\ \E shape \in SmashShapes : init_size = shape[1] /\ t_size = shape[2]
    /\ lanes = {} /\ lane_files = {}
    /\ mem = [o \in 0..(MaxOffset - 1) |-> 0]
    /\ InitSmashIn(ProbeStates, ProbeRehashes) /\ InitIdleLaneMath /\ InitIdleMapFile /\ InitIdleStatic /\ InitIdleOnceMap /\ InitIdleLaneFiles
ProbeSpec == ProbeInit /\ [][SmashNext]_vars

\* The lane arithmetic applied once to every argument in the bounded sets
LaneMathInit ==
    /\ InitLandfill /\ InitIdleJournal /\ InitIdleBytes /\ InitAppendOnly
    /\ InitIdleArray /\ InitIdleStress /\ InitIdleSmash
    /\ InitLaneMathIn(LaneInitSizes, 0..MaxLaneOffset, LaneLens, Alignments)
    /\ InitIdleMapFile /\ InitIdleStatic /\ InitIdleOnceMap /\ InitIdleLaneFiles
LaneMathNext ==
    \/ LmLaneNrAndOfs
    \/ LmFindSpaceFor
LaneMathSpec == LaneMathInit /\ [][LaneMathNext]_vars

\* read and request_write of one arena, for offsets in and beyond its lanes
LaneCapInit ==
    /\ InitLandfill /\ InitIdleJournal /\ InitIdleBytes /\ InitAppendOnly
    /\ InitIdleArray /\ InitIdleStress /\ InitIdleSmash
    /\ InitLaneMathIn({1, 1024}, WideOffsets, WideLens, {1})
    /\ InitIdleMapFile /\ InitIdleStatic /\ InitIdleOnceMap /\ InitIdleLaneFiles
LaneCapNext ==
    \/ LcRead
    \/ LcRequestWrite
LaneCapSpec == LaneCapInit /\ [][LaneCapNext]_vars

\* The file mappings of one arena, in either version of the Landfill
MapFileInit ==
    /\ InitLandfill /\ InitIdleJournal /\ InitIdleBytes /\ InitAppendOnly
    /\ InitIdleArray /\ InitIdleStress /\ InitIdleSmash /\ InitIdleLaneMath
    /\ InitMapFileIn({"disk", "landfill"}) /\ InitIdleStatic /\ InitIdleOnceMap /\ InitIdleLaneFiles
MapFileNext ==
    \/ \E name \in FullNames : MfMapFileCreate(name)
    \/ \E name \in FullNames : MfMapFileExisting(name)
MapFileSpec == MapFileInit /\ [][MapFileNext]_vars

\* The static blobs of an arena that is closed and opened again
StaticInit ==
    /\ InitLandfill /\ InitIdleJournal /\ InitIdleBytes /\ InitAppendOnly
    /\ InitIdleArray /\ InitIdleStress /\ InitIdleSmash /\ InitIdleLaneMath
    /\ InitIdleMapFile /\ InitStaticIn({"disk", "ephemeral"})
    /\ InitIdleOnceMap /\ InitIdleLaneFiles
StaticNext ==
    \/ \E name \in StaticNames, t \in Blobs : GetStaticOrInit(name, t)
    \/ \E t \in Blobs : EntropyOpen(t)
    \/ StaticClose
    \/ StaticOpen
StaticSpec == StaticInit /\ [][StaticNext]_vars

\* A OnceMap used by two threads at once
OnceMapInit ==
    /\ InitLandfill /\ InitIdleJournal /\ InitIdleBytes /\ InitAppendOnly
    /\ InitIdleArray /\ InitIdleStress /\ InitIdleSmash /\ InitIdleLaneMath
    /\ InitIdleMapFile /\ InitIdleStatic
    /\ InitOnceMapIn(OmStates, OmRehashes) /\ InitIdleLaneFiles
OnceMapNext ==
    \/ \E t \in OmThreads, k \in OmKeys, v \in OmValues :
          OmCall(t, "insert", k, v)
    \/ \E t \in OmThreads, k \in OmKeys : OmCall(t, "get", k, 0)
    \/ \E t \in OmThreads : OmProbe(t)
    \/ \E t \in OmThreads : OmWithMut(t)
    \/ \E t \in OmThreads : OmWriteKey(t)
    \/ \E t \in OmThreads : OmWriteValue(t)
    \/ \E t \in OmThreads : OmReturn(t)
OnceMapSpec == OnceMapInit /\ [][OnceMapNext]_vars

\* A OnceMap whose on_empty may fail
OnEmptyFailNext ==
    \/ OnceMapNext
    \/ \E t \in OmThreads : OmOnEmptyFail(t)
OnEmptyFailSpec == OnceMapInit /\ [][OnEmptyFailNext]_vars

\* A OnceMap whose checksums come from the seed stored in the arena, dropped
\* and made again between calls
SearchInit ==
    /\ InitLandfill /\ InitIdleJournal /\ InitIdleBytes /\ InitAppendOnly
    /\ InitIdleArray /\ InitIdleStress /\ InitIdleSmash /\ InitIdleLaneMath
    /\ InitIdleMapFile /\ InitSeededOnceMap /\ InitIdleLaneFiles
SearchNext ==
    \/ OnceMapNext
    \/ \E t \in Blobs : OmReopen(t)
SearchSpec == SearchInit /\ [][SearchNext]_vars

\* The lane files of an arena that is written, flushed, closed and opened
LaneFilesInit ==
    /\ InitLandfill /\ InitIdleJournal /\ InitDiskBytes /\ InitAppendOnly
    /\ InitIdleArray /\ InitIdleStress /\ InitIdleSmash /\ InitIdleLaneMath
    /\ InitIdleMapFile /\ InitIdleStatic /\ InitIdleOnceMap
    /\ InitLaneFilesIn({"raw", "storage"})
LaneFilesNext ==
    \/ \E offset \in 0..(MaxOffset - 1), len \in 0..MaxLen :
          LaneWrite(offset, len)
    \/ LaneFlush
    \/ LaneClose
    \/ LaneOpen
LaneFilesSpec == LaneFilesInit /\ [][LaneFilesNext]_vars

(***************************************************************************)
(* Properties                                                              *)
(***************************************************************************)

\* C1: no two live Landfills own the same directory: while a Landfill opened
\* on a path is alive, no other open of that path has succeeded.
C1_LockExclusivity ==
    \A a, b \in ArenaIds :
        (a # b /\ Live(a) /\ Live(b) /\ arenas[a].dir_path # NoPath)
            => arenas[a].dir_path # arenas[b].dir_path

\* A step that is a call of Landfill::substructure
IsSubstructureStep == lf_last' # lf_last /\ lf_last'.op = "substructure"

\* C2 (as claimed): the first substructure request that resolves to a full
\* name succeeds; every later request resolving to that name returns an
\* error and changes nothing.
C2_FirstSucceedsLaterFail ==
    [][IsSubstructureStep =>
        LET a == lf_last'.arena
            claimed == lf_last'.name \in arenas[a].reserved_names
        IN /\ ~claimed => lf_last'.result = "ok"
           /\ claimed => (lf_last'.result = "err" /\ arenas' = arenas)]_vars

\* C2 (amended): a request whose full name is unclaimed claims the name, and
\* fails only when S::init fails because the name of a nested substructure
\* is already claimed; every request resolving to a claimed name returns an
\* error and changes nothing, so the first substructure stays as it was.
C2_DuplicateSubstructure ==
    [][IsSubstructureStep =>
        LET a == lf_last'.arena
            full == lf_last'.name
            claimed == full \in arenas[a].reserved_names
        IN /\ claimed => (lf_last'.result = "err" /\ arenas' = arenas)
           /\ ~claimed =>
                /\ full \in arenas'[a].reserved_names
                /\ arenas[a].subs \subseteq arenas'[a].subs
                /\ \/ lf_last'.result = "ok"
                      /\ arenas'[a].subs # arenas[a].subs
                   \/ lf_last'.result = "init_err"
                      /\ SepName(full, <<"array">>) \in arenas[a].reserved_names
                      /\ arenas'[a].subs = arenas[a].subs]_vars

\* C2 witness: a duplicate request has just failed while the substructure
\* that claimed the name first is still held.
C2_Witness ==
    /\ lf_last.op = "substructure" /\ lf_last.result = "err"
    /\ lf_last.name \in arenas[lf_last.arena].subs

\* The logical offsets a reservation or record covers
Range(r) == r.offset .. (r.offset + r.length - 1)

\* C3: get on a record returned by write in this session of the log returns
\* exactly the bytes written, in every later state.
C3_ReadAfterWrite ==
    ao_open =>
        \A rec \in ao_hist.records :
            rec.session = ao_hist.session => AoGet(rec) = rec.bytes

\* C3 witness: a record is read back after a later, non-empty write has
\* completed and while another write is in flight.
C3_Witness ==
    /\ ao_open
    /\ \E r1, r2 \in ao_hist.records :
          /\ r1.id < r2.id /\ r1.length > 0 /\ r2.length > 0
          /\ r1.session = ao_hist.session /\ r2.session = ao_hist.session
    /\ \E t \in SmThreads : ao_thr[t].pc # "idle"

C5_PersistAcrossRestart ==
    (ao_open /\ j_mode = "disk") =>
        \A rec \in ao_hist.records :
            rec.session < ao_hist.session => AoGet(rec) = rec.bytes

\* C5 witness: base lane size 1, the log was reopened, and a record of the
\* earlier session lies in a lane above lanes that have no file.
C5_Witness ==
    /\ ao_open /\ init_size = 1
    /\ \E rec \in ao_hist.records :
          /\ rec.session < ao_hist.session /\ rec.length > 0
          /\ \E j \in 0..(N_LANES - 1) :
                /\ j < LaneNrAndOfs(init_size, rec.offset)[1]
                /\ j \notin lane_files

\* C6: after a halt at any point of an update, torn store included, the
\* reopened journal holds the value before or the value after that update.
C6_CrashDurability ==
    (j_open /\ j_hist.crash.active) =>
        JournalValue \in {j_hist.crash.pre, j_hist.crash.post}

\* C7: when no closure ever decreased the value, the values handed to the
\* closures are non-decreasing, across close and reopen too: each is at
\* least the one handed to the update before it, and so is the one the next
\* update would be handed.
C7_JournalMonotonic ==
    ~j_hist.decreased =>
        /\ j_hist.ordered
        /\ (j_open /\ j_upd.pc = "idle") => JournalValue >= j_hist.seen

\* C7 witness: an update after a reopen is handed a value greater than zero
C7_Witness ==
    /\ j_hist.reopened /\ ~j_hist.decreased /\ j_upd.pc = "read"
    /\ j_upd.old > 0 /\ j_hist.n >= 3

\* C8: update panics exactly when the closure leaves the value less than
\* the old value; equal or greater is accepted.
C8_MonotonicityContract ==
    (j_upd.pc = "idle" /\ j_hist.result # "none") =>
        (j_hist.result = "panic" <=> j_upd.new < j_upd.old)

\* C9: with_mut(i, |s| *s = v) with a non-zero v succeeds, the slot does not
\* straddle a lane boundary, and get(i) then returns v.
C9_ArrayRoundTrip ==
    (ra_last.op = "with_mut" /\ \E k \in 1..t_size : ra_last.value[k] # 0) =>
        /\ ra_last.result = "ok"
        /\ FitsInLane(init_size, ByteOffset(ra_last.index, t_size), t_size)
        /\ RaGetResult(ra_last.index) = ra_last.value

\* C10: get returns Some exactly when the bytes of the slot are not all
\* zero, with those bytes as the record, and never maps a lane.
C10_ZeroSentinelRead ==
    ra_last.op = "get" =>
        LET bytes == SlotBytes(ra_last.index)
            nonzero == \E k \in 1..t_size : bytes[k] # 0
        IN /\ ra_last.result = "some" <=> nonzero
           /\ ra_last.result = "some" => ra_last.value = bytes
           /\ lanes = ra_last.lanes_before

\* C10 witness: get returned a record whose first byte is zero
C10_Witness ==
    /\ ra_last.op = "get" /\ ra_last.result = "some"
    /\ ra_last.value[1] = 0

\* C11: on a disk-backed array, every non-zero record stored is returned by
\* get for its index in every later state in which the arena is open, also
\* after every handle was dropped without self destruct and the path was
\* opened again.
C11_ArrayPersists ==
    ra_open =>
        \A i \in 0..MaxIndex :
            ra_hist.written[i] # None => RaGetResult(i) = ra_hist.written[i]

\* C11 witness: after a reopen, get has returned a record that was stored in
\* an earlier session in a lane above lane 0.
C11_Witness ==
    /\ ra_open /\ ra_hist.reopened
    /\ ra_last.op = "get" /\ ra_last.result = "some"
    /\ ra_hist.written[ra_last.index] = ra_last.value
    /\ LaneNrAndOfs(init_size, ByteOffset(ra_last.index, t_size))[1] >= 1
    /\ lanes = lane_files

\* C15: once the self destruct sequence was initiated and the last handle is
\* dropped, the directory, its lock file and its lane files are gone; the
\* next open of the path succeeds and every slot of the array reads empty
\* until something is stored.
C15_SelfDestruct ==
    /\ (ra_last.op = "drop" /\ ra_last.result = "destroyed") =>
          /\ ~dir_exists[RaPath] /\ ~lock_exists[RaPath]
          /\ lane_files = {}
    /\ ra_hist.destroyed =>
          /\ ra_last.op = "open" => ra_last.result = "ok"
          /\ ra_open => \A i \in 0..MaxIndex : RaGetResult(i) = None

\* C15 witness: an arena that held records was destroyed and its path
\* opened again, and a get on the new arena has returned None.
C15_Witness ==
    /\ ra_open /\ ra_hist.destroyed /\ ra_hist.wiped
    /\ ra_hist.reopened
    /\ ra_last.op = "get" /\ ra_last.result = "none"
    /\ lane_files = {}

\* C12: with_mut gives its closure the slot exclusively: two writers are
\* never inside the closure of one slot together, so of the writers that
\* store only into an empty slot at most one stores into a given slot, and
\* the slot keeps that record.  The record the reader looks for is found
\* once it has been stored.
C12_Exclusive ==
    /\ \A t \in Writers, u \in Writers :
          (/\ t # u
           /\ st_thr[t].pc \in {"mapped", "seen"}
           /\ st_thr[u].pc \in {"mapped", "seen"})
          => st_thr[t].index # st_thr[u].index
    /\ \A i \in 0..MaxIndex :
          /\ Len(st_hist.stores[i]) <= 1
          /\ Len(st_hist.stores[i]) = 1
                => SlotBytes(i) = RecordOf(st_hist.stores[i][1])
          /\ Len(st_hist.stores[i]) = 0 => IsAllZeroes(SlotBytes(i))
C12_Stored ==
    \E i \in 0..MaxIndex : st_hist.stores[i] = <<st_rd.target>>
C12_CheckAndSet ==
    /\ []C12_Exclusive
    /\ C12_Stored ~> (st_rd.pc = "found")

\* C12 witness: a writer found a slot taken by the other writer's record,
\* both writers have stored, and the reader has found its record.
C12_Witness ==
    /\ st_rd.pc = "found"
    /\ \A t \in Writers : st_thr[t].pc = "done"
    /\ \E t \in Writers, i \in 0..MaxIndex :
          /\ <<t, i>> \in st_hist.refused
          /\ Len(st_hist.stores[i]) = 1 /\ st_hist.stores[i][1] # t

\* C20: however the writers interleave in request_write, each lane is
\* created at most once, one thread at most is between creating a lane and
\* publishing it, and a writer that got its slice finds the lane mapped.
C20_OneLaneCreation ==
    /\ \A l \in 0..(N_LANES - 1) : st_hist.created[l] <= 1
    /\ \A t \in Writers, u \in Writers :
          (t # u /\ st_thr[t].pc = "set" /\ st_thr[u].pc = "set")
          => LaneOf(st_thr[t].index) # LaneOf(st_thr[u].index)
    /\ \A t \in Writers :
          st_thr[t].pc \in {"mapped", "seen"}
          => LaneOf(st_thr[t].index) \in lanes

\* C20 witness: one writer has created a lane and not yet published it
\* while the other writer, after the same lane, was turned away and spins.
C20_Witness ==
    \E t \in Writers, u \in Writers :
        /\ t # u
        /\ st_thr[t].pc = "set"
        /\ st_thr[u].pc = "locked"
        /\ LaneOf(st_thr[t].index) = LaneOf(st_thr[u].index)
        /\ st_thr[t].index # st_thr[u].index
        /\ LaneOf(st_thr[u].index) \in st_claimed
        /\ st_hist.created[LaneOf(st_thr[t].index)] = 1

\* C13: a get that began after insert(key, .., value) had returned Ok shows
\* the value stored for the key to on_occupied: a get that halts at that
\* value ends there, and a get whose on_occupied always proceeds is shown
\* the slot that insert wrote for the key.
C13_InsertGetRoundTrip ==
    \A t \in SmThreads :
        LET me == sm_thr[t] IN
        (/\ me.op = "get" /\ me.pc = "done" /\ me.known
         /\ me.value = sm_hist.inserted[me.key])
        => /\ \E c \in me.seen : c.value = sm_hist.inserted[me.key]
           /\ me.halts => me.result = "halt"
           /\ ~me.halts =>
                 \E c \in me.seen : c.key = me.key /\ c.value = me.value

\* C13 witness: all keys are inserted, one of them after a collision, and a
\* get that always proceeds has been shown another key's value and then the
\* value of its own key.
C13_Witness ==
    /\ \A k \in Keys : sm_hist.inserted[k] # 0
    /\ \E t \in SmThreads :
          LET me == sm_thr[t] IN
          /\ me.op = "get" /\ me.pc = "done" /\ me.known /\ ~me.halts
          /\ me.probes >= 2
          /\ \E c \in me.seen : c.key # me.key
          /\ \E c \in me.seen : c.key = me.key

\* C14: a get for a key no insert was called for returns: it stops at the
\* first empty slot of the key's probe path, within ProbeLimit probes, also
\* when on_occupied always proceeds, and on_occupied is never shown a value
\* stored for that key.
C14_NeverShown ==
    \A t \in SmThreads :
        LET me == sm_thr[t] IN
        (me.op = "get" /\ me.key \notin sm_hist.started)
        => /\ me.probes < ProbeLimit
           /\ \A c \in me.seen : c.key # me.key /\ c.value # Empty
           /\ me.pc = "done" =>
                 (me.result = "empty"
                  => SlotValue(sm_slots, GetSlot(me.search)) = Empty)
C14_NegativeLookup ==
    /\ []C14_NeverShown
    /\ \A t \in SmThreads :
          (sm_thr[t].op = "get" /\ sm_thr[t].pc = "probe")
          ~> (sm_thr[t].pc = "done")

\* C14 witness: a get that always proceeds, for a key never inserted, has
\* passed two occupied slots and returned at an empty one.
C14_Witness ==
    \E t \in SmThreads :
        LET me == sm_thr[t] IN
        /\ me.op = "get" /\ me.pc = "done" /\ ~me.halts
        /\ me.key \notin sm_hist.started
        /\ me.result = "empty"
        /\ Cardinality(me.seen) >= 2

\* The lane of a byte, by the slow decomposition
SlowLane(init, offset) == LaneNrAndOfsSlow(init, 0, offset)[1]

\* The bytes [offset, offset + len) lie in one lane
InOneLane(init, offset, len) ==
    len = 0 \/ SlowLane(init, offset) = SlowLane(init, offset + len - 1)

\* C16: lane_nr_and_ofs agrees with the decomposition that subtracts
\* lane_size(0), lane_size(1), .. until the rest fits; the offset inside the
\* lane is below the lane's size and offset = (2^lane - 1) * INIT + inner.
C16_LaneArithmetic ==
    lm_out.op = "lane_nr_and_ofs" =>
        /\ lm_out.fast = lm_out.slow
        /\ lm_out.fast[2] >= 0
        /\ lm_out.fast[2] < lm_in.init * Pow2(lm_out.fast[1])
        /\ lm_in.offset
              = (Pow2(lm_out.fast[1]) - 1) * lm_in.init + lm_out.fast[2]

\* C16 witness: an offset inside the fourth lane or later of an arena with
\* INIT_SIZE 17
C16_Witness ==
    /\ lm_out.op = "lane_nr_and_ofs"
    /\ lm_in.init = 17
    /\ lm_out.fast[1] >= 3 /\ lm_out.fast[2] > 0

\* C17: find_space_for returns the smallest offset not below the one given
\* at which len bytes lie in one lane: the offset given when its lane has
\* room, else the start of the first later lane that holds len bytes.
C17_FindSpaceFor ==
    lm_out.op = "find_space_for" =>
        LET init == lm_in.init
            res  == lm_out.res
        IN /\ res >= lm_in.offset
           /\ InOneLane(init, res, lm_in.len)
           /\ \A o \in lm_in.offset..(res - 1) : ~InOneLane(init, o, lm_in.len)
           /\ res # lm_in.offset
                 => /\ LaneNrAndOfsSlow(init, 0, res)[2] = 0
                    /\ \A l \in (SlowLane(init, lm_in.offset) + 1)
                                   ..(SlowLane(init, res) - 1) :
                          LaneSize(init, l) < lm_in.len

\* C17 witness: the lane of the offset given has no room and the next lane
\* is too small, so the result lies two lanes on or more
C17_Witness ==
    /\ lm_out.op = "find_space_for"
    /\ SlowLane(lm_in.init, lm_out.res)
          >= SlowLane(lm_in.init, lm_in.offset) + 2

\* C18: the offset find_space_for returns for a record that is to be
\* written with an alignment is a multiple of that alignment.
C18_AlignedResult ==
    lm_out.op = "find_space_for" => lm_out.res % lm_in.alignment = 0

\* C19: map_file_create for a full name that is not claimed creates or
\* opens the file, maps it, claims the name and returns Some; for a full
\* name that is claimed it returns None and maps nothing.
C19_MapFileCreate ==
    mf_last.op = "map_file_create" =>
        /\ mf_last.name \in mf_names
        /\ IF mf_last.claimed
           THEN /\ mf_last.result = "none"
                /\ mf_maps[mf_last.name] = mf_last.maps
           ELSE /\ mf_last.result = "some"
                /\ mf_last.name \in mf_files
                /\ mf_maps[mf_last.name] = mf_last.maps + 1

\* The handles that hold the arena opened at path p: the Landfill values of
\* the caller and the branches kept by substructures and mapped files
Holders(p) ==
    {a \in ArenaIds : /\ arenas[a].dir_path = p
                      /\ (arenas[a].users > 0 \/ arenas[a].subs # {})}

\* C21: when the arena is used through open, failed open, clone,
\* substructure creation and drop, `_lock` exists in a directory exactly
\* when some live handle holds the arena opened there; a failed open leaves
\* the lock file of the holder in place.
C21_LockFileLifecycle ==
    /\ \A p \in Paths : lock_exists[p] <=> Holders(p) # {}
    /\ (lf_last.op = "open" /\ lf_last.result = "err")
          => \E p \in Paths : lock_exists[p] /\ Holders(p) # {}

\* C21 witness: an open has just failed on a path whose arena is held by
\* nothing but a branch kept by a substructure, and the lock file is there.
C21_Witness ==
    /\ lf_last.op = "open" /\ lf_last.result = "err"
    /\ \E p \in Paths : /\ lock_exists[p]
                        /\ \E a \in Holders(p) : arenas[a].users = 0

\* A step that is a call of get_static_or_init or of Entropy::open
IsStaticStep ==
    sf_last' # sf_last /\ sf_last'.op \in {"get_static_or_init", "entropy_open"}

C23_SetOnce ==
    /\ \A k \in OmKeys :
          /\ Cardinality(EntriesOf(k)) <= 1
          /\ om_hist.stores[k] <= 1
          /\ k \in om_hist.completed =>
                /\ om_hist.stores[k] = 1
                /\ \E r \in EntriesOf(k) :
                      DataGet(om_data, r.entry.k_ofs + r.entry.v_ofs_relative)
                         = om_hist.stored[k]
    /\ \A t \in OmThreads :
          LET me == om_thr[t] IN
          me.known =>
             /\ me.op = "insert" => me.pc \in {"probe", "done"}
             /\ (me.op = "get" /\ me.pc = "done")
                   => me.result = om_hist.stored[me.key]

\* C23 witness: two inserts of one key with different values, called before
\* either had completed, have both returned and one of them stored its
\* value, behind the entry of another key.
C23_Witness ==
    /\ om_thr[1].op = "insert" /\ om_thr[2].op = "insert"
    /\ om_thr[1].pc = "done" /\ om_thr[2].pc = "done"
    /\ om_thr[1].key = om_thr[2].key /\ om_thr[1].value # om_thr[2].value
    /\ ~om_thr[1].known /\ ~om_thr[2].known
    /\ om_thr[1].probes > 0
    /\ om_hist.stores[om_thr[1].key] = 1

\* C24: the file of a lane that was created has the length INIT * 2^i in
\* every later state, through writes, flushes and closing and opening the
\* arena.
C24_LanesNeverShrink ==
    \A i \in lane_files : rw_len[i] = LaneSize(init_size, i)
\* C25: on a disk journal every update whose closure does not decrease the
\* value succeeds, however many came before it, and the cursor stays on one
\* of the floor(SIZE / entry_size) entries of the file.
C25_RingWrapAround ==
    j_mode = "disk" =>
        /\ j_latest < NEntries
        /\ (j_upd.pc = "idle" /\ j_upd.new >= j_upd.old) =>
               j_hist.result # "panic"

\* C26: the ephemeral journal and the disk journal accept exactly the same
\* updates: whatever value an update was handed and whatever its closure
\* left, the assertion of the Mem variant passes exactly when the assertion
\* of the Disk variant does.
C26_EphemeralEqualsDisk ==
    j_upd.pc = "applied" =>
        (MemAccepts(j_upd.new, j_upd.old) <=> DiskAccepts(j_upd.new, j_upd.old))

\* The largest value among the entries of the ring whose checksum
\* validates, T::default() = 0 when none does
LargestValid(ring) ==
    LET valid == {ring[i].value : i \in {k \in 0..(NEntries - 1) :
                                    Checksum(ring[k].value) = ring[k].checksum}}
    IN CHOOSE m \in valid \cup {0} : \A x \in valid : x <= m

\* C27: Journal::open leaves as current value the largest value of a
\* validating entry, the default when no entry validates; and when the entry
\* an interrupted update was storing does not validate, the value recovered
\* is the one the update before it left.
C27_RecoverySelection ==
    [][(j_mode = "disk" /\ ~j_open /\ j_open') =>
          /\ JournalValue' = LargestValid(j_file')
          /\ (/\ j_hist.crash.active
              /\ Checksum(j_file[j_hist.crash.slot].value)
                     # j_file[j_hist.crash.slot].checksum)
                => JournalValue' = j_hist.crash.pre]_vars

\* C27 witness: reopened after a halt that left a torn, non-validating entry
\* in the slot being stored, behind a validating entry of a value above the
\* default, which is the value recovered
C27_Witness ==
    /\ j_mode = "disk" /\ j_open /\ j_upd.pc = "idle" /\ j_hist.crash.active
    /\ j_file[j_hist.crash.slot] # ZeroEntry
    /\ Checksum(j_file[j_hist.crash.slot].value)
           # j_file[j_hist.crash.slot].checksum
    /\ j_hist.crash.pre > 0
    /\ JournalValue = j_hist.crash.pre

\* C28: after an update that failed, by its assertion or by the flush, the
\* next update on the journal is handed the value the failed update was
\* handed.
C28_FailedUpdateChangesNothing ==
    (j_open /\ j_upd.pc = "idle" /\ j_hist.result \in {"panic", "err"}) =>
        JournalValue = j_upd.old

\* C29: under fair scheduling of the writers, no writer stays inside
\* request_write forever: whether it creates the lane itself or was turned
\* away by map_file_create and waits for the winner to publish it, it
\* leaves the loop again and again, with its slice (or with the error for a
\* range that crosses lanes).
C29_LaneCreationLive ==
    \A t \in Writers :
        []<>(st_thr[t].pc \notin {"locked", "create", "set", "io", "recheck"})

\* C29 witness: a writer that map_file_create had turned away has got its
\* slice of the lane another writer created
C29_Witness ==
    \E t \in Writers, u \in Writers :
        /\ t # u /\ st_variant = "spin"
        /\ u \in st_hist.spun /\ t \notin st_hist.spun
        /\ st_thr[u].pc = "mapped"
        /\ LaneOf(st_thr[u].index) \in lanes
        /\ st_hist.created[LaneOf(st_thr[u].index)] = 1

\* state_n of a key: the checksum of the key, re-seeded n times
RECURSIVE StateOfBand(_, _)
StateOfBand(key, n) ==
    IF n = 0 THEN sm_hash[key] ELSE sm_rehash[StateOfBand(key, n - 1)]

\* C30: a search for key k that is at retry r of band n probes index
\* offset_n + ((state_n + r) mod size_n), with offset_n = (2^n - 1) *
\* INITIAL_FANOUT, size_n = 2^n * INITIAL_FANOUT, r < 2^n, state_0 the
\* checksum of k and state_(n+1) the checksum of state_n; the index lies
\* inside the band.
C30_ProbeSequence ==
    \A t \in SmThreads :
        sm_thr[t].pc = "probe" =>
            LET search == sm_thr[t].search
                n      == FloorLog2(search.fanout \div INITIAL_FANOUT)
            IN /\ search.offset = (Pow2(n) - 1) * INITIAL_FANOUT
               /\ search.fanout = Pow2(n) * INITIAL_FANOUT
               /\ search.tries_limit = Pow2(n)
               /\ search.retries < search.tries_limit
               /\ search.entropy_state = StateOfBand(sm_thr[t].key, n)
               /\ GetSlot(search) = search.offset
                     + ((search.entropy_state + search.retries) % search.fanout)
               /\ GetSlot(search) >= search.offset
               /\ GetSlot(search) < search.offset + search.fanout

\* Every slot of the probe path of `search` before the one with index
\* `slot` is occupied
RECURSIVE PathOccupied(_, _, _, _)
PathOccupied(slots, search, slot, fuel) ==
    IF GetSlot(search) = slot THEN TRUE
    ELSE IF fuel = 0 \/ SlotValue(slots, GetSlot(search)) = Empty THEN FALSE
    ELSE PathOccupied(slots, CalculateNext(search, sm_rehash), slot, fuel - 1)

\* C31: every value stored for a key lies on the key's probe path behind
\* occupied slots only; so a get for a key whose insert had returned, when
\* it returns at an empty slot, has been shown a slot stored for the key.
C31_ProbePath ==
    /\ \A r \in sm_slots :
          PathOccupied(sm_slots, SearchNew(sm_hash[r.key]), r.slot, ProbeLimit)
    /\ \A t \in SmThreads :
          LET me == sm_thr[t] IN
          (me.op = "get" /\ me.known /\ me.pc = "done" /\ me.result = "empty")
          => \E c \in me.seen : c.key = me.key

\* C31 witness: a value is stored at the third position of its key's path,
\* and a get for that key went past it and returned at the empty slot behind
C31_Witness ==
    \E t \in SmThreads, r \in sm_slots :
        LET me    == sm_thr[t]
            first == SearchNew(sm_hash[r.key])
            second == CalculateNext(first, sm_rehash)
        IN
        /\ r.slot # GetSlot(first) /\ r.slot # GetSlot(second)
        /\ me.op = "get" /\ me.known /\ me.key = r.key
        /\ me.pc = "done" /\ me.result = "empty"
        /\ me.probes = 3

\* No slot of the index was stored to twice, and two inserts are never
\* inside on_empty for one slot together
C32_OneStore ==
    /\ \A r \in om_index, q \in om_index : r.slot = q.slot => r = q
    /\ \A t \in OmThreads, u \in OmThreads :
          (/\ t # u
           /\ om_thr[t].pc \in {"write_key", "write_value"}
           /\ om_thr[u].pc \in {"write_key", "write_value"})
          => GetSlot(om_thr[t].search) # GetSlot(om_thr[u].search)

\* An insert that read a slot as empty and finds it occupied under the write
\* lock leaves the slot as it is: it halts there, or it goes on to its next
\* probe
C32_SecondLook ==
    \A t \in OmThreads :
        (/\ om_thr[t].pc = "with_mut"
         /\ IndexGet(om_index, GetSlot(om_thr[t].search)) # NoEntry
         /\ om_thr'[t] # om_thr[t])
        => /\ om_index' = om_index /\ om_data' = om_data
           /\ \/ om_thr'[t].pc = "done"
              \/ /\ om_thr'[t].pc = "probe"
                 /\ om_thr'[t].search =
                        CalculateNext(om_thr[t].search, om_rehash)

\* C32: of two concurrent inserts that both read the same slot as empty, one
\* stores there; the other finds the slot occupied after it got the write
\* lock, shows it to on_occupied and on Proceed moves to its next probe; no
\* stored entry is overwritten.
C32_DoubleChecked == []C32_OneStore /\ [][C32_SecondLook]_vars

\* C32 witness: an insert that had read a slot as empty is about to take the
\* write lock, the other insert has stored another key there in the meantime
\* and returned
C32_Witness ==
    \E t \in OmThreads, u \in OmThreads, r \in om_index :
        /\ t # u
        /\ om_thr[t].op = "insert" /\ om_thr[t].pc = "with_mut"
        /\ r.slot = GetSlot(om_thr[t].search)
        /\ om_thr[u].op = "insert" /\ om_thr[u].pc = "done"
        /\ om_thr[u].key # om_thr[t].key
        /\ r.slot = GetSlot(om_thr[u].search)
        /\ om_hist.stores[om_thr[u].key] = 1

\* The search state after n calls of calculate_next
RECURSIVE NthSearch(_, _, _)
NthSearch(search, rehash, n) ==
    IF n = 0 THEN search
    ELSE NthSearch(CalculateNext(search, rehash), rehash, n - 1)

C34_ZeroRecordHalts ==
    (ra_last.op = "with_mut" /\ IsAllZeroes(ra_last.value)) =>
        ra_last.result # "ok"

\* A stripe's write lock is held only by an insert inside on_empty
C35_NoLockLeft ==
    \A t \in OmThreads :
        om_thr[t].lock # NoStripe
           => om_thr[t].pc \in {"write_key", "write_value"}

\* The step on which insert returns the error of on_empty: the insert held
\* the lock of the probed slot, the slot is empty before and after, and no
\* slot of the index changes
C35_FailStep ==
    \A t \in OmThreads :
        (om_thr[t].op = "insert" /\ om_thr'[t].op = "insert_err") =>
            /\ om_thr[t].lock = Stripe(GetSlot(om_thr[t].search))
            /\ om_thr'[t].lock = NoStripe /\ om_thr'[t].pc = "done"
            /\ IndexGet(om_index, GetSlot(om_thr[t].search)) = NoEntry
            /\ om_index' = om_index

\* C35: when on_empty returns an I/O error, insert returns it, the probed
\* slot stays all zero, no other slot is modified and the write lock of the
\* slot is released.
C35_FailedOnEmpty == []C35_NoLockLeft /\ [][C35_FailStep]_vars

\* C35 witness: an insert has returned the error of on_empty, and the other
\* thread's insert has since stored its entry in the slot that insert had
\* probed
C35_Witness ==
    \E t \in OmThreads, u \in OmThreads :
        /\ t # u
        /\ om_thr[t].op = "insert_err" /\ om_thr[t].pc = "done"
        /\ om_thr[u].op = "insert" /\ om_thr[u].pc = "done"
        /\ GetSlot(om_thr[u].search) = GetSlot(om_thr[t].search)
        /\ IndexGet(om_index, GetSlot(om_thr[t].search)) # NoEntry
        /\ om_hist.stores[om_thr[u].key] = 1

\* C36: while the guard that get(i) returned is alive no writer holds the
\* write lock of the stripe of i or runs its closure there, the slot seen
\* through the guard and every slot of that stripe keep their bytes, the
\* slot holds a whole record of one writer, and a stripe has one holder of
\* its write lock at a time
C36_Pinned ==
    st_rd.pc = "holding" =>
        /\ \A l \in st_locks :
              l.stripe = Stripe(st_rd.idx) => l.thread = ReaderId
        /\ \A t \in Writers :
              st_thr[t].pc \in {"locked", "io", "recheck", "mapped", "half"}
                  => Stripe(st_thr[t].index) # Stripe(st_rd.idx)
        /\ \E t \in Writers : SlotBytes(st_rd.idx) = RecordOf(t)
C36_Linearized ==
    /\ \A l, m \in st_locks : l.stripe = m.stripe => l.thread = m.thread
    /\ \A t \in Writers :
          st_thr[t].pc \in {"locked", "io", "recheck", "mapped", "half"}
              => [thread |-> t, stripe |-> Stripe(st_thr[t].index)]
                     \in st_locks
C36_Stable ==
    (st_rd.pc = "holding" /\ st_rd'.pc = "holding") =>
        \A i \in 0..MaxIndex :
            Stripe(i) = Stripe(st_rd.idx) => SlotBytes(i)' = SlotBytes(i)
C37_OwnerKeepsDirectory ==
    \A a \in ArenaIds :
        (Live(a) /\ arenas[a].dir_path # NoPath) =>
            /\ lock_exists[arenas[a].dir_path]
            /\ dir_exists[arenas[a].dir_path]
\* C38: a directory is removed only by the drop of the last reference of
\* an arena whose self destruct sequence was initiated, and no arena that
\* is still referenced, flagged or not, loses its directory or lock file
C38_Removal ==
    \A p \in Paths :
        ((dir_exists[p] /\ ~dir_exists'[p])
            \/ (\E b \in ArenaIds : Live(b) /\ arenas[b].dir_path = p
                                     /\ lock_exists[p] /\ ~lock_exists'[p]
                                     /\ arenas'[b] = arenas[b]))
        => /\ \E a \in ArenaIds :
                 /\ arenas[a].status = "unlocking" /\ arenas[a].dir_path = p
                 /\ arenas[a].self_destruct /\ RefCount(a) = 0
                 /\ arenas'[a] = UnusedArena
           /\ \A b \in ArenaIds : Live(b) => arenas[b].dir_path # p
C38_DeferredSelfDestruct == [][C38_Removal]_vars
\* C39: read and request_write of any offset and length either resolve to
\* a lane below N_LANES or report failure (None, an error); they do not
\* panic on the index of the lane table
C39_LaneCap ==
    lm_out.op \in {"read", "request_write"} =>
        /\ lm_out.res # Panic
        /\ lm_out.res \notin {None, CrossLaneErr} => lm_out.res[1] < N_LANES
\* C40: after the disk-backed log is dropped and opened again, the writehead
\* the journal recovers is at or beyond the end of every record written in
\* an earlier session, and every write of a later session, running or
\* finished, starts at or beyond the end of every such record
C40_WriteheadSurvives ==
    /\ (ao_open /\ j_mode = "disk") =>
          \A rec \in ao_hist.records :
              rec.session < ao_hist.session =>
                  /\ Writehead >= rec.offset + rec.length
                  /\ \A t \in Threads :
                        ao_thr[t].pc # "idle" =>
                            ao_thr[t].offset >= rec.offset + rec.length
    /\ \A r, q \in ao_hist.records :
          r.session < q.session =>
              /\ q.offset >= r.offset + r.length
              /\ Range(r) \cap Range(q) = {}

\* C40 witness: a record written after the reopen starts exactly where the
\* last record of the earlier session ends
C40_Witness ==
    /\ ao_open /\ j_mode = "disk"
    /\ \E r, q \in ao_hist.records :
          /\ r.session < q.session /\ q.session = ao_hist.session
          /\ r.length > 0 /\ q.length > 0
          /\ q.offset = r.offset + r.length
          /\ AoGet(r) = r.bytes /\ AoGet(q) = q.bytes
====
